---- MODULE Spec2Model ----
(***************************************************************************)
(* A model of the ecc front end: the scanner (src/src/lexer.rs) that turns *)
(* source text into tokens, and the recursive-descent parser               *)
(* (src/src/parser.rs) that turns the tokens into a syntax tree.           *)
(*                                                                         *)
(* Source text is a TLA+ string of ASCII characters, so one character is   *)
(* one byte and the byte cursor of the scanner is a character cursor.      *)
(* Cursors are 0-based as in the code; character i of the text is          *)
(* SubSeq(src, i + 1, i + 1).                                              *)
(***************************************************************************)
EXTENDS Integers, Sequences, FiniteSets, TLC

VARIABLES
  src,      \* Lexer.src: the text being scanned
  index,    \* Lexer.index: cursor into src
  at,       \* Lexer.at: current location [file, line, column]
  files,    \* Lexer.files: the file table (Files.files)
  tokens,   \* the token vector built by Lexer::lex, then Parser.tokens
  lexst,    \* where the scanner is: "run", "done", "panic" or "hang"
  pindex,   \* Parser.index: cursor into tokens
  scopes,   \* Parser.scopes: the typedef scope stack, innermost frame last
  parsest,  \* where the parser is: "new", "list", "ok", "err" or "panic"
  root,     \* the TranslationUnit list built so far by parse_list
  log       \* observation of the parser's internal steps (not program state)

vars == <<src, index, at, files, tokens, lexst, pindex, scopes, parsest, root, log>>

lexvars == <<src, index, at, files, tokens, lexst>>

parsevars == <<pindex, scopes, parsest, root, log>>

(***************************************************************************)
(* Characters                                                              *)
(***************************************************************************)
Digits == {"0", "1", "2", "3", "4", "5", "6", "7", "8", "9"}

\* char::is_ascii_alphabetic
AsciiAlphabetic ==
  {"a", "b", "c", "d", "e", "f", "g", "h", "i", "j", "k", "l", "m",
   "n", "o", "p", "q", "r", "s", "t", "u", "v", "w", "x", "y", "z",
   "A", "B", "C", "D", "E", "F", "G", "H", "I", "J", "K", "L", "M",
   "N", "O", "P", "Q", "R", "S", "T", "U", "V", "W", "X", "Y", "Z"}

\* char::is_ascii_alphanumeric
AsciiAlphanumeric == AsciiAlphabetic \cup Digits

\* char::is_ascii_hexdigit
AsciiHexDigits == Digits \cup {"a", "b", "c", "d", "e", "f", "A", "B", "C", "D", "E", "F"}

\* is_octal_digit
OctalDigits == {"0", "1", "2", "3", "4", "5", "6", "7"}

\* is_binary_digit
BinaryDigits == {"0", "1"}

\* char::is_whitespace, restricted to ASCII
Whitespace == {" ", "\t", "\n", "\r", "\f"}

(***************************************************************************)
(* The fixed-string table, in the order of the source                      *)
(***************************************************************************)
PunctuatorTable ==
  <<
     <<"...", "Ellipses">>, <<"<<=", "DoubleLessEqual">>, <<">>=", "DoubleGreaterEqual">>,
     <<"->", "ArrowLeft">>, <<"++", "DoublePlus">>, <<"--", "DoubleMinus">>,
     <<"<<", "DoubleLess">>, <<">>", "DoubleGreater">>, <<"<=", "LessEqual">>,
     <<">=", "GreaterEqual">>, <<"==", "DoubleEqual">>, <<"!=", "NotEqual">>,
     <<"&&", "DoubleAmpersand">>, <<"||", "DoubleBar">>, <<"::", "DoubleColon">>,
     <<"*=", "AsteriskEqual">>, <<"/=", "SlashEqual">>, <<"%=", "PercentEqual">>,
     <<"+=", "PlusEqual">>, <<"-=", "MinusEqual">>, <<"&=", "Ampersand">>,
     <<"^=", "CaretEqual">>, <<"|=", "BarEqual">>, <<"[", "OpenBracket">>,
     <<"]", "CloseBracket">>, <<"(", "OpenParenthesis">>, <<")", "CloseParenthesis">>,
     <<"{", "OpenBrace">>, <<"}", "CloseBrace">>, <<".", "Period">>,
     <<"&", "Ampersand">>, <<"*", "Asterisk">>, <<"+", "Plus">>,
     <<"-", "Minus">>, <<"~", "Tilde">>, <<"!", "Exclamation">>,
     <<"/", "Slash">>, <<"%", "Percent">>, <<"<", "Less">>,
     <<">", "Greater">>, <<"^", "Caret">>, <<"|", "Bar">>,
     <<"?", "Question">>, <<":", "Colon">>, <<";", "Semicolon">>,
     <<"=", "Equal">>, <<",", "Comma">>
  >>

KeywordTable ==
  <<
     <<"alignas", "Alignas">>, <<"alignof", "Alignof">>, <<"auto", "Auto">>,
     <<"bool", "Bool">>, <<"break", "Break">>, <<"case", "Case">>,
     <<"char", "Char">>, <<"const", "Const">>, <<"constexpr", "Constexpr">>,
     <<"continue", "Continue">>, <<"default", "Default">>, <<"do", "Do">>,
     <<"double", "Double">>, <<"else", "Else">>, <<"enum", "Enum">>,
     <<"extern", "Extern">>, <<"false", "False">>, <<"float", "Float">>,
     <<"for", "For">>, <<"goto", "Goto">>, <<"if", "If">>,
     <<"inline", "Inline">>, <<"int", "Int">>, <<"long", "Long">>,
     <<"nullptr", "Nullptr">>, <<"register", "Register">>, <<"restrict", "Restrict">>,
     <<"return", "Return">>, <<"short", "Short">>, <<"signed", "Signed">>,
     <<"sizeof", "Sizeof">>, <<"static", "Static">>, <<"static_assert", "StaticAssert">>,
     <<"struct", "Struct">>, <<"switch", "Switch">>, <<"thread_local", "ThreadLocal">>,
     <<"true", "True">>, <<"typedef", "Typedef">>, <<"typeof", "Typeof">>,
     <<"typeof_unqual", "TypeofUnqual">>, <<"union", "Union">>, <<"unsigned", "Unsigned">>,
     <<"void", "Void">>, <<"volatile", "Volatile">>, <<"while", "While">>,
     <<"_Atomic", "Atomic">>, <<"_BitInt", "BitInt">>, <<"_Complex", "Complex">>,
     <<"_Decimal128", "Decimal128">>, <<"_Decimal32", "Decimal32">>, <<"_Decimal64", "Decimal64">>,
     <<"_Generic", "Generic">>, <<"_Imaginary", "Imaginary">>, <<"_Noreturn", "Noreturn">>
  >>

\* TOKEN_MAP as it would be with the operators listed shortest first
TOKEN_MAP_shortest_first ==
  [m \in 1..Len(PunctuatorTable) |-> PunctuatorTable[Len(PunctuatorTable) + 1 - m]]
    \o KeywordTable

\* TOKEN_MAP: tried from the first entry to the last
TOKEN_MAP == PunctuatorTable \o KeywordTable

(***************************************************************************)
(* Tokens, locations and the file table (src/src/token.rs)                 *)
(***************************************************************************)
\* At::new
At(file, line, column) == [file |-> file, line |-> line, column |-> column]

\* At::next_column
next_column(a, by) == [a EXCEPT !.column = @ + by]

\* At::next_line
next_line(a) == [a EXCEPT !.line = @ + 1, !.column = 1]

\* TokenKind: a fieldless variant
Kind(tag) == [tag |-> tag, text |-> "", format |-> "", suffix |-> "", encoding |-> ""]

\* TokenKind::Identifier(name)
IdentifierKind(name) == [Kind("Identifier") EXCEPT !.text = name]

\* TokenKind::Integer(IntegerToken { source, format, suffix }); suffix "None" is Option::None
IntegerKind(source, format, suffix) ==
  [Kind("Integer") EXCEPT !.text = source, !.format = format, !.suffix = suffix]

\* TokenKind::String(text, encoding)
StringKind(text, encoding) == [Kind("String") EXCEPT !.text = text, !.encoding = encoding]

\* Token { at, kind }
Token(a, kind) == [at |-> a, kind |-> kind]

\* get_file_id as it would be if a name that is not in the table got the id
\* of the last entry instead of an entry of its own
get_file_id_reusing_last(fs, name) ==
  IF \E i \in 1..Len(fs) : fs[i] = name
    THEN [id |-> (CHOOSE i \in 1..Len(fs) : fs[i] = name) - 1, files |-> fs]
  ELSE IF Len(fs) = 0 THEN [id |-> 0, files |-> <<name>>]
  ELSE [id |-> Len(fs) - 1, files |-> fs]

\* get_file_id as it would be without the search: every call appends
get_file_id_always_appending(fs, name) ==
  [id |-> Len(fs), files |-> Append(fs, name)]

\* Files::get_file_id: the id of name, and the table after the call
get_file_id(fs, name) ==
  IF \E i \in 1..Len(fs) : fs[i] = name
    THEN [id |-> (CHOOSE i \in 1..Len(fs) :
                    fs[i] = name /\ \A j \in 1..(i - 1) : fs[j] # name) - 1,
          files |-> fs]
    ELSE [id |-> Len(fs), files |-> Append(fs, name)]

\* A u32 holds every number of up to nine decimal digits.  Line numbers of ten
\* digits and more are outside the model (the integers of TLC are 32-bit
\* signed); no input of the model has one.
U32SafeDigits == 9

(***************************************************************************)
(* The scanner's reading primitives (src/src/lexer.rs)                     *)
(***************************************************************************)
\* character i of s (0-based); the caller checks i < Len(s)
CharAt(s, i) == SubSeq(s, i + 1, i + 1)

\* Lexer::is_eof
is_eof(s, i) == i >= Len(s)

\* Lexer::matches: s[i..].starts_with(pattern)
matches(s, i, pattern) ==
  /\ i + Len(pattern) <= Len(s)
  /\ SubSeq(s, i + 1, i + Len(pattern)) = pattern

\* Lexer::peek(offset) unwraps the character at i + offset: it panics when there is none
PeekPanics(s, i, offset) == i + offset >= Len(s)

peek(s, i, offset) == CharAt(s, i + offset)

\* a `while cls.contains(cur()) { next() }` loop: the first position at or after
\* i whose character is not in cls, or Len(s) when the text runs out
SkipWhile(s, i, cls) ==
  CHOOSE j \in i..Len(s) :
    /\ j = Len(s) \/ CharAt(s, j) \notin cls
    /\ \A k \in i..(j - 1) : CharAt(s, k) \in cls

\* str::split(c).next() and the like: the first position at or after i whose
\* character is in cls, or Len(s)
SkipUntil(s, i, cls) ==
  CHOOSE j \in i..Len(s) :
    /\ j = Len(s) \/ CharAt(s, j) \in cls
    /\ \A k \in i..(j - 1) : CharAt(s, k) \notin cls

\* the outcome of scanning one token: st is "ok", "panic" or "hang"
LexOk(i, kind) == [st |-> "ok", index |-> i, kind |-> kind]

LexPanic(i) == [st |-> "panic", index |-> i, kind |-> Kind("Error")]

LexHang(i) == [st |-> "hang", index |-> i, kind |-> Kind("Error")]

(***************************************************************************)
(* Literals and identifiers                                                *)
(***************************************************************************)
\* Lexer::lex_integer_suffix: the suffix tag and the number of characters taken
lex_integer_suffix(s, i) ==
  IF matches(s, i, "u") \/ matches(s, i, "U")
    THEN [n |-> 1, suffix |-> "Unsigned"]
  ELSE IF matches(s, i, "ul") \/ matches(s, i, "UL") \/ matches(s, i, "uL") \/ matches(s, i, "Ul")
    THEN [n |-> 2, suffix |-> "LongUnsigned"]
  ELSE IF matches(s, i, "ull") \/ matches(s, i, "ULL") \/ matches(s, i, "uLL") \/ matches(s, i, "Ull")
    THEN [n |-> 3, suffix |-> "LongLongUnsigned"]
  ELSE IF matches(s, i, "uwb") \/ matches(s, i, "UWB") \/ matches(s, i, "uWB") \/ matches(s, i, "Uwb")
    THEN [n |-> 3, suffix |-> "BitPreciseUnsigned"]
  ELSE IF matches(s, i, "l") \/ matches(s, i, "L")
    THEN [n |-> 1, suffix |-> "Long"]
  ELSE IF matches(s, i, "lu") \/ matches(s, i, "LU") \/ matches(s, i, "lU") \/ matches(s, i, "Lu")
    THEN [n |-> 2, suffix |-> "LongUnsigned"]
  ELSE IF matches(s, i, "ll") \/ matches(s, i, "LL")
    THEN [n |-> 2, suffix |-> "LongLong"]
  ELSE IF matches(s, i, "llu") \/ matches(s, i, "LLU") \/ matches(s, i, "llU") \/ matches(s, i, "LLu")
    THEN [n |-> 3, suffix |-> "LongLongUnsigned"]
  ELSE IF matches(s, i, "wb") \/ matches(s, i, "WB")
    THEN [n |-> 2, suffix |-> "BitPrecise"]
  ELSE IF matches(s, i, "wbu") \/ matches(s, i, "WBU") \/ matches(s, i, "wbU") \/ matches(s, i, "WBu")
    THEN [n |-> 3, suffix |-> "BitPreciseUnsigned"]
  ELSE [n |-> 0, suffix |-> "None"]

\* the digit loop shared by the four integer scanners: digits start at position
\* start, cur() is read until it is no digit, so running out of text panics
LexDigits(s, start, digits, format) ==
  LET end == SkipWhile(s, start, digits \cup {"'"})
      suffix == lex_integer_suffix(s, end)
  IN IF is_eof(s, end)
       THEN LexPanic(end)
       ELSE LexOk(end + suffix.n, IntegerKind(SubSeq(s, start + 1, end), format, suffix.suffix))

\* Lexer::lex_hexadecimal_literal
lex_hexadecimal_literal(s, i) == LexDigits(s, i + 2, AsciiHexDigits, "Hexadecimal")

\* Lexer::lex_binary_literal
lex_binary_literal(s, i) == LexDigits(s, i + 2, BinaryDigits, "Binary")

\* Lexer::lex_octal_literal
lex_octal_literal(s, i) == LexDigits(s, i, OctalDigits, "Octal")

\* Lexer::lex_decimal_literal
lex_decimal_literal(s, i) == LexDigits(s, i, Digits, "Decimal")

\* Lexer::lex_identifier
lex_identifier(s, i) ==
  LET end == SkipWhile(s, i, AsciiAlphanumeric \cup {"_"})
  IN IF is_eof(s, end)
       THEN LexPanic(end)
       ELSE LexOk(end, IdentifierKind(SubSeq(s, i + 1, end)))

\* Lexer::is_string_literal
is_string_literal(s, i) ==
  \/ matches(s, i, "\"")
  \/ matches(s, i, "u8\"")
  \/ matches(s, i, "u\"")
  \/ matches(s, i, "U\"")
  \/ matches(s, i, "L\"")

\* Lexer::lex_string_encoding: it looks at the prefix and does not move the cursor
lex_string_encoding(s, i) ==
  IF matches(s, i, "u8") THEN "UTF8"
  ELSE IF matches(s, i, "u") THEN "UTF16"
  ELSE IF matches(s, i, "U") THEN "UTF32"
  ELSE IF matches(s, i, "L") THEN "Wide"
  ELSE "None"

\* the loop of lex_string_literal from position j: the position of the quote
\* that ends it, or Len(s) + 1 when the text runs out (next() at the end of the
\* text moves nothing, so the loop never ends)
RECURSIVE StringEnd(_, _)
StringEnd(s, j) ==
  IF matches(s, j, "\\\"") THEN StringEnd(s, j + 2)
  ELSE IF matches(s, j, "\"") THEN j
  ELSE IF is_eof(s, j) THEN Len(s) + 1
  ELSE StringEnd(s, j + 1)

\* Lexer::lex_string_literal
lex_string_literal(s, i) ==
  LET encoding == lex_string_encoding(s, i)
      start == i + 1
      end == StringEnd(s, start)
  IN IF end > Len(s)
       THEN LexHang(Len(s))
       ELSE LexOk(end + 1, StringKind(SubSeq(s, start + 1, end), encoding))

(***************************************************************************)
(* One token                                                               *)
(***************************************************************************)
\* the loop over TOKEN_MAP in lex_token: the first entry whose pattern is at
\* the cursor, 0 when there is none
FirstMatch(s, i) ==
  IF \E m \in 1..Len(TOKEN_MAP) : matches(s, i, TOKEN_MAP[m][1])
  THEN CHOOSE m \in 1..Len(TOKEN_MAP) :
         /\ matches(s, i, TOKEN_MAP[m][1])
         /\ \A k \in 1..(m - 1) : ~matches(s, i, TOKEN_MAP[k][1])
  ELSE 0

\* lex_token, line 88: matches("0x") || matches("0X") && peek(2).is_ascii_hexdigit()
\* "yes", "no", or "panic" when peek(2) is evaluated and finds no character
HexadecimalTest(s, i) ==
  IF matches(s, i, "0x") THEN "yes"
  ELSE IF ~matches(s, i, "0X") THEN "no"
  ELSE IF PeekPanics(s, i, 2) THEN "panic"
  ELSE IF peek(s, i, 2) \in AsciiHexDigits THEN "yes"
  ELSE "no"

\* lex_token, lines 90-92: matches("0b") || matches("0B") && peek(2) == '0' || peek(2) == '1'
\* && binds tighter than ||, so peek(2) is read whenever "0b" is not at the cursor
BinaryTest(s, i) ==
  IF matches(s, i, "0b") THEN "yes"
  ELSE IF PeekPanics(s, i, 2) THEN "panic"
  ELSE IF matches(s, i, "0B") /\ peek(s, i, 2) = "0" THEN "yes"
  ELSE IF peek(s, i, 2) = "1" THEN "yes"
  ELSE "no"

\* lex_token after the table found nothing (lines 86-107)
LexLiteral(s, i) ==
  IF is_string_literal(s, i) THEN lex_string_literal(s, i)
  ELSE IF HexadecimalTest(s, i) = "panic" THEN LexPanic(i)
  ELSE IF HexadecimalTest(s, i) = "yes" THEN lex_hexadecimal_literal(s, i)
  ELSE IF BinaryTest(s, i) = "panic" THEN LexPanic(i)
  ELSE IF BinaryTest(s, i) = "yes" THEN lex_binary_literal(s, i)
  ELSE IF matches(s, i, "0") THEN lex_octal_literal(s, i)
  ELSE IF CharAt(s, i) \in Digits THEN lex_decimal_literal(s, i)
  ELSE IF CharAt(s, i) \in AsciiAlphabetic THEN lex_identifier(s, i)
  ELSE LexOk(i + 1, Kind("Error"))

\* Lexer::lex_token at cursor i < Len(s)
lex_token(s, i) ==
  LET m == FirstMatch(s, i)
  IN IF m # 0
       THEN LexOk(i + Len(TOKEN_MAP[m][1]), Kind(TOKEN_MAP[m][2]))
       ELSE LexLiteral(s, i)

(***************************************************************************)
(* Line directives                                                         *)
(***************************************************************************)
\* the value of a run of decimal digits
RECURSIVE DecimalValue(_)
DecimalValue(w) ==
  LET c == SubSeq(w, Len(w), Len(w))
      last == CASE c = "0" -> 0 [] c = "1" -> 1 [] c = "2" -> 2 [] c = "3" -> 3
                [] c = "4" -> 4 [] c = "5" -> 5 [] c = "6" -> 6 [] c = "7" -> 7
                [] c = "8" -> 8 [] c = "9" -> 9
  IN IF Len(w) = 0 THEN 0
     ELSE 10 * DecimalValue(SubSeq(w, 1, Len(w) - 1)) + last

\* str::parse::<u32>: an optional + and at least one digit; -1 stands for Err,
\* on which the unwrap of line 71 panics
ParseU32(w) ==
  LET ds == IF Len(w) > 0 /\ SubSeq(w, 1, 1) = "+" THEN SubSeq(w, 2, Len(w)) ELSE w
  IN IF Len(ds) = 0 \/ \E k \in 1..Len(ds) : SubSeq(ds, k, k) \notin Digits
       THEN -1
     ELSE IF Len(ds) > U32SafeDigits THEN -1
     ELSE DecimalValue(ds)

\* take(c) asserts that cur() is c: it panics at the end of the text and on
\* any other character
TakePanics(s, i, c) == is_eof(s, i) \/ CharAt(s, i) # c

\* process_line_directive as it would be if the directive line itself were
\* counted: the line after the directive gets N + 1
process_line_directive_counting_itself(s, i) ==
  LET i2  == i + 2                                     \* after take('#'), take(' ')
      ws  == SkipWhile(s, i2, Whitespace)              \* split_whitespace skips these
      we  == SkipUntil(s, ws, Whitespace)
      line == SubSeq(s, ws + 1, we)                    \* the first word
      i3  == i2 + Len(line)                            \* index += line.len()
      i5  == i3 + 2                                    \* after take(' '), take('"')
      q   == SkipUntil(s, i5, {"\""})
      file == SubSeq(s, i5 + 1, q)                     \* split('"').next()
      i6  == q + 1                                     \* after take('"')
      nl  == SkipUntil(s, i6, {"\n"})                  \* split('\n').next()
      bad == [st |-> "panic", index |-> i, line |-> 0, file |-> ""]
  IN IF TakePanics(s, i + 1, " ") THEN bad
     ELSE IF is_eof(s, ws) THEN bad                    \* no word: unwrap of None
     ELSE IF TakePanics(s, i3, " ") THEN bad
     ELSE IF TakePanics(s, i3 + 1, "\"") THEN bad
     ELSE IF TakePanics(s, q, "\"") THEN bad
     ELSE IF TakePanics(s, nl, "\n") THEN bad
     ELSE IF ParseU32(line) < 0 THEN bad
     ELSE [st |-> "ok", index |-> nl + 1, line |-> ParseU32(line) + 1, file |-> file]

\* Lexer::process_line_directive at a cursor that is on '#'
\* st "ok" or "panic"; index, line and file are those after the directive
process_line_directive(s, i) ==
  LET i2  == i + 2                                     \* after take('#'), take(' ')
      ws  == SkipWhile(s, i2, Whitespace)              \* split_whitespace skips these
      we  == SkipUntil(s, ws, Whitespace)
      line == SubSeq(s, ws + 1, we)                    \* the first word
      i3  == i2 + Len(line)                            \* index += line.len()
      i5  == i3 + 2                                    \* after take(' '), take('"')
      q   == SkipUntil(s, i5, {"\""})
      file == SubSeq(s, i5 + 1, q)                     \* split('"').next()
      i6  == q + 1                                     \* after take('"')
      nl  == SkipUntil(s, i6, {"\n"})                  \* split('\n').next()
      bad == [st |-> "panic", index |-> i, line |-> 0, file |-> ""]
  IN IF TakePanics(s, i + 1, " ") THEN bad
     ELSE IF is_eof(s, ws) THEN bad                    \* no word: unwrap of None
     ELSE IF TakePanics(s, i3, " ") THEN bad
     ELSE IF TakePanics(s, i3 + 1, "\"") THEN bad
     ELSE IF TakePanics(s, q, "\"") THEN bad
     ELSE IF TakePanics(s, nl, "\n") THEN bad
     ELSE IF ParseU32(line) < 0 THEN bad
     ELSE [st |-> "ok", index |-> nl + 1, line |-> ParseU32(line), file |-> file]

(***************************************************************************)
(* Lexer::lex, one iteration of its loop per step                          *)
(***************************************************************************)
DummyFile == "<dummy file; this should never appear; lexer bug>"

\* Lexer::new
LexerNew(text) ==
  /\ src = text
  /\ index = 0
  /\ files = get_file_id(<<>>, DummyFile).files
  /\ at = At(get_file_id(<<>>, DummyFile).id, 1, 1)
  /\ tokens = <<>>
  /\ lexst = "run"

\* lex_next, lines 43-46: a newline
LexNewline ==
  /\ lexst = "run" /\ ~is_eof(src, index)
  /\ CharAt(src, index) = "\n"
  /\ index' = index + 1
  /\ at' = next_line(next_column(at, 1))
  /\ UNCHANGED <<src, files, tokens, lexst>>
  /\ UNCHANGED parsevars

\* lex_next, lines 47-49: other white space
LexWhitespace ==
  /\ lexst = "run" /\ ~is_eof(src, index)
  /\ CharAt(src, index) # "\n"
  /\ CharAt(src, index) \in Whitespace
  /\ index' = index + 1
  /\ at' = next_column(at, 1)
  /\ UNCHANGED <<src, files, tokens, lexst>>
  /\ UNCHANGED parsevars

\* lex_next, lines 50-52: a line directive
LexDirective ==
  /\ lexst = "run" /\ ~is_eof(src, index)
  /\ CharAt(src, index) = "#"
  /\ LET d == process_line_directive(src, index)
         f == get_file_id(files, d.file)
     IN IF d.st = "ok"
          THEN /\ index' = d.index
               /\ files' = f.files
               /\ at' = At(f.id, d.line, 1)
               /\ lexst' = lexst
          ELSE /\ lexst' = "panic"
               /\ UNCHANGED <<index, files, at>>
  /\ UNCHANGED <<src, tokens>>
  /\ UNCHANGED parsevars

\* lex_next, lines 53-54, and the push of line 31: a token.  A string literal
\* that is never closed keeps the loop of lex_string_literal running: a build
\* with overflow checks panics when the column overflows, a build without
\* them never returns.
LexToken ==
  /\ lexst = "run" /\ ~is_eof(src, index)
  /\ CharAt(src, index) \notin Whitespace \cup {"#"}
  /\ LET t == lex_token(src, index)
     IN \/ /\ t.st = "ok"
           /\ index' = t.index
           /\ at' = next_column(at, t.index - index)
           /\ tokens' = Append(tokens, Token(at, t.kind))
           /\ lexst' = lexst
        \/ /\ t.st = "panic"
           /\ lexst' = "panic"
           /\ UNCHANGED <<index, at, tokens>>
        \/ /\ t.st = "hang"
           /\ lexst' \in {"hang", "panic"}
           /\ UNCHANGED <<index, at, tokens>>
  /\ UNCHANGED <<src, files>>
  /\ UNCHANGED parsevars

\* Lexer::lex, lines 34-40: the text is used up, Eof is pushed
LexEof ==
  /\ lexst = "run" /\ is_eof(src, index)
  /\ LET f == get_file_id(files, "<EOF>")
     IN /\ files' = f.files
        /\ tokens' = Append(tokens, Token(At(f.id, 1, 1), Kind("Eof")))
  /\ lexst' = "done"
  /\ UNCHANGED <<src, index, at>>
  /\ UNCHANGED parsevars

(***************************************************************************)
(* The parser (src/src/parser.rs)                                          *)
(*                                                                         *)
(* A parser state is a record: index and scopes are the fields of Parser,  *)
(* st is how the last rule ended ("ok", "err" for Err, "panic" for a run   *)
(* that aborted), node is the value the rule returned, td is the boolean   *)
(* behind the `is_typedef: &mut bool` that is being threaded, is_typedef   *)
(* is the `is_typedef: bool` that a call passes by value, and log collects *)
(* what the rules did.  A rule is an operator from the state it   *)
(* is called in to the state it returns in.  A syntax-tree node is a tuple *)
(* of the variant's name and its children; the At anchors of the nodes and *)
(* of their punctuation are left out.                                      *)
(***************************************************************************)
ParserState(i, sc, lg) ==
  [index |-> i, scopes |-> sc, st |-> "ok", node |-> <<>>, td |-> FALSE,
   is_typedef |-> FALSE, log |-> lg]

\* Option::None
None == <<"None">>

\* Scope { typedefs: HashSet::new() }
EmptyScope == {}

\* Parser::enter_scope
enter_scope(s) == [s EXCEPT !.scopes = Append(@, EmptyScope)]

\* leave_scope as it would be if the frame were not popped
leave_scope_keeping_frame(s) == s

\* Parser::leave_scope: Vec::pop, which leaves an empty stack empty
leave_scope(s) ==
  [s EXCEPT !.scopes = IF Len(@) = 0 THEN @ ELSE SubSeq(@, 1, Len(@) - 1)]

\* whether the cursor is past the last token: indexing tokens then panics
OutOfBounds(s) == s.index >= Len(tokens)

\* a run that aborted
Panic(s) == [s EXCEPT !.st = "panic", !.node = <<>>]

\* Parser::cur / Parser::peek(0), for a cursor that is in bounds
cur(s) == tokens[s.index + 1]

\* the tag of cur().kind; a cursor out of bounds has no tag, and the rule that
\* reads it ends in Panic through err_expected or its own test
CurTag(s) == IF OutOfBounds(s) THEN "<out of bounds>" ELSE cur(s).kind.tag

\* Parser::is, for a cursor that is in bounds
is(s, kind) == CurTag(s) = kind

\* Parser::next
next(s) == [s EXCEPT !.index = @ + 1]

\* Parser::err_expected, returned with `?`: Err, built from cur()
err_expected(s) == IF OutOfBounds(s) THEN Panic(s) ELSE [s EXCEPT !.st = "err", !.node = <<>>]

\* Ok(node)
Ok(s, node) == [s EXCEPT !.node = node]

\* take as it would be without the test of the kind: whatever token the
\* cursor is at is stepped over
take_of_any_token(s, kind) ==
  IF s.st # "ok" THEN s
  ELSE IF OutOfBounds(s) THEN Panic(s)
  ELSE next(s)

\* Parser::take; a state that already is an Err or an abort is handed on, the
\* `?` before the call having returned
take(s, kind) ==
  IF s.st # "ok" THEN s
  ELSE IF OutOfBounds(s) THEN Panic(s)
  ELSE IF ~is(s, kind) THEN err_expected(s)
  ELSE next(s)

\* Parser::take_identifier
take_identifier(s) ==
  IF s.st # "ok" THEN s
  ELSE IF OutOfBounds(s) THEN Panic(s)
  ELSE IF cur(s).kind.tag # "Identifier" THEN err_expected(s)
  ELSE Ok(next(s), cur(s).kind.text)

\* what try_to leaves behind when the attempt r, started in state s, failed
TryFailed(s, r, restored) ==
  [ev |-> "try_failed",
   index_before |-> s.index, scopes_before |-> s.scopes,
   index_reached |-> r.index, scopes_reached |-> r.scopes,
   index_after |-> restored.index, scopes_after |-> restored.scopes]

\* try_to as it would be with `self.scopes = scopes` left out
try_to_keeping_scopes(s, r) ==
  IF r.st = "err"
    THEN LET restored == [r EXCEPT !.index = s.index]
         IN [restored EXCEPT !.log = Append(@, TryFailed(s, r, restored))]
    ELSE r

\* Parser::try_to, r being the outcome of the attempt made in state s
try_to(s, r) ==
  IF r.st = "err"
    THEN LET restored == [r EXCEPT !.index = s.index, !.scopes = s.scopes]
         IN [restored EXCEPT !.log = Append(@, TryFailed(s, r, restored))]
    ELSE r

\* Parser::maybe: Some(node), or None after a failed attempt
maybe(s, r) ==
  LET t == try_to(s, r)
  IN IF t.st = "err" THEN [t EXCEPT !.st = "ok", !.node = None] ELSE t

\* the state in which the alternative to a failed attempt starts: what
\* try_to restored, the error dropped
Else(r) == [r EXCEPT !.st = "ok", !.node = <<>>]

RECURSIVE Rule(_, _),
          parse_list(_, _, _, _), ListLoop(_, _, _),
          parse_comma_list(_, _, _, _), CommaListLoop(_, _, _),
          BinaryLevel(_, _), BinaryLoop(_, _),
          BinaryClimb(_, _, _)

RECURSIVE parse_primary_expression(_), parse_generic_selection(_),
          parse_generic_assoc_list(_), parse_generic_association(_),
          parse_postfix_expression(_), PostfixLoop(_),
          parse_argument_expression_list(_), parse_compound_literal(_),
          parse_storage_class_specifiers(_),
          parse_unary_expression(_), parse_sizeof_unary_expression(_),
          parse_cast_expression(_), parse_actual_cast_expression(_),
          parse_multiplicative_expression(_), parse_additive_expression(_),
          parse_shift_expression(_), parse_relational_expression(_),
          parse_equality_expression(_), parse_and_expression(_),
          parse_exclusive_or_expression(_), parse_inclusive_or_expression(_),
          parse_logical_and_expression(_), parse_logical_or_expression(_),
          parse_conditional_expression(_), parse_assignment_expression(_),
          parse_actual_assignment_expression(_), parse_expression(_),
          parse_constant_expression(_)

RECURSIVE parse_declaration(_), parse_declaration_specifiers(_),
          parse_declaration_specifier(_), parse_init_declarator_list(_, _),
          parse_init_declarator(_, _), parse_attribute_declaration(_),
          parse_storage_class_specifier(_), parse_type_specifier(_),
          parse_struct_or_union_specifier(_), parse_with_list(_),
          parse_struct_or_union(_), parse_member_declaration_list(_),
          parse_member_declaration(_), parse_specifier_qualifier_list(_),
          parse_type_specifier_qualifier(_), parse_member_declarator_list(_),
          parse_member_declarator(_), parse_with_colon(_),
          parse_enum_specifier(_), parse_with_members(_),
          parse_enumerator_list(_), parse_enumerator(_),
          parse_enum_type_specifier(_), parse_atomic_type_specifier(_),
          parse_typeof_specifier(_), parse_typeof_specifier_argument(_),
          parse_type_qualifier(_), parse_function_specifier(_),
          parse_alignment_specifier(_)

RECURSIVE parse_declarator(_, _), parse_direct_declarator(_, _),
          DirectDeclaratorLoop(_), parse_direct_declarator_leaf(_, _),
          parse_array_declarator(_), ArrayDeclaratorEnd(_, _),
          parse_function_declarator(_),
          parse_pointer(_), parse_type_qualifier_list(_),
          parse_parameter_type_list(_), parse_parameter_list(_),
          parse_parameter_declaration(_), parse_type_name(_)

RECURSIVE parse_abstract_declarator(_), parse_direct_abstract_declarator(_),
          DirectAbstractDeclaratorLoop(_), parse_direct_abstract_declarator_leaf(_),
          parse_array_abstract_declarator(_), ArrayAbstractDeclaratorEnd(_, _),
          parse_function_abstract_declarator(_), parse_typedef_name(_)

RECURSIVE parse_braced_initializer(_), parse_initializer(_),
          parse_initializer_list(_), InitializerListLoop(_), parse_designation(_),
          parse_designator_list(_), parse_designator(_),
          parse_static_assert_declaration(_),
          parse_attribute_specifier_sequence(_), AttributeSpecifierSequenceLoop(_),
          parse_attribute_specifier(_), parse_attribute_list(_)

RECURSIVE parse_statement(_), parse_unlabeled_statement(_), parse_primary_block(_),
          parse_secondary_block(_), parse_label(_), parse_labeled_statement(_),
          parse_compound_statement(_), parse_block_item_list(_), parse_block_item(_),
          parse_expression_statement(_), parse_selection_statement(_),
          parse_iteration_statement(_), ForEnd(_, _, _), parse_jump_statement(_),
          parse_external_declaration(_), parse_function_definition(_),
          parse_function_body(_)

\* a call of the rule parse_<name> that is given is_typedef by value
RuleWith(name, s, is_typedef) == Rule(name, [s EXCEPT !.is_typedef = is_typedef])

(***************************************************************************)
(* The list combinators                                                    *)
(***************************************************************************)
\* Parser::parse_list; rule names the element rule (rule[1]; rule[2] is the
\* is_typedef its closure captured), leaf and rec
\* the variants built
parse_list(rule, leaf, rec, s) ==
  LET first == RuleWith(rule[1], s, rule[2])
  IN IF first.st # "ok" THEN first
     ELSE ListLoop(rule, rec, Ok(first, <<leaf, first.node>>))

\* the loop of parse_list, s.node being `left`
ListLoop(rule, rec, s) ==
  LET right == RuleWith(rule[1], s, rule[2])
  IN CASE right.st = "panic" -> right
       [] right.st = "err" -> Ok(Else(try_to(s, right)), s.node)
       [] OTHER -> ListLoop(rule, rec, Ok(right, <<rec, s.node, right.node>>))

\* Parser::parse_comma_list
parse_comma_list(rule, leaf, rec, s) ==
  LET first == RuleWith(rule[1], s, rule[2])
  IN IF first.st # "ok" THEN first
     ELSE CommaListLoop(rule, rec, Ok(first, <<leaf, first.node>>))

\* the loop of parse_comma_list, s.node being `left`
CommaListLoop(rule, rec, s) ==
  LET right == RuleWith(rule[1], take(s, "Comma"), rule[2])
  IN CASE OutOfBounds(s) -> Panic(s)
       [] ~is(s, "Comma") -> s
       [] right.st # "ok" -> right
       [] OTHER -> CommaListLoop(rule, rec, Ok(right, <<rec, s.node, right.node>>))

\* the ten binary-operator rules from the tightest to the loosest: the
\* variant each wraps its first operand in and, by the tag of the operator
\* token, the variant it builds; the operand of a rule is the rule before it,
\* and parse_cast_expression for the first
BinaryLevels ==
  << [leaf |-> "Cast",
      ops |-> [Asterisk |-> "Multiply", Slash |-> "Divide", Percent |-> "Modulo"]],
     [leaf |-> "Multiplicative", ops |-> [Plus |-> "Add", Minus |-> "Subtract"]],
     [leaf |-> "Additive", ops |-> [DoubleLess |-> "Left", DoubleGreater |-> "Right"]],
     [leaf |-> "Shift",
      ops |-> [Less |-> "Less", Greater |-> "Greater", LessEqual |-> "LessEqual",
               GreaterEqual |-> "GreaterEqual"]],
     [leaf |-> "Relational", ops |-> [DoubleEqual |-> "Equal", NotEqual |-> "NotEqual"]],
     [leaf |-> "Equality", ops |-> [Ampersand |-> "And"]],
     [leaf |-> "And", ops |-> [Caret |-> "ExclusiveOr"]],
     [leaf |-> "ExclusiveOr", ops |-> [Bar |-> "InclusiveOr"]],
     [leaf |-> "InclusiveOr", ops |-> [DoubleAmpersand |-> "LogicalAnd"]],
     [leaf |-> "LogicalAnd", ops |-> [DoubleBar |-> "LogicalOr"]] >>

\* the binary-operator rule k: the rules 1..k each parse one operand through
\* the rule below, wrap it in their leaf variant and run their loop; the
\* chain of k nested calls bottoms out in parse_cast_expression, so rule k
\* is the cast expression climbed through the rules 1..k in turn
BinaryLevel(k, s) == BinaryClimb(k, 1, Rule("cast_expression", s))

\* left is the outcome of the rule j - 1 (of parse_cast_expression for j = 1);
\* `?` hands an Err on, otherwise rule j wraps it and runs its loop
BinaryClimb(k, j, left) ==
  IF left.st # "ok" \/ j > k THEN left
  ELSE BinaryClimb(k, j + 1, BinaryLoop(j, Ok(left, <<BinaryLevels[j].leaf, left.node>>)))

\* the loop as it would be if the right operand were parsed by rule k itself:
\* operators of one level would group to the right
BinaryLoop_grouping_right(k, s) ==
  LET right == BinaryLevel(k, next(s))
  IN CASE OutOfBounds(s) -> Panic(s)
       [] CurTag(s) \notin DOMAIN BinaryLevels[k].ops -> s
       [] right.st # "ok" -> right
       [] OTHER -> Ok(right, <<BinaryLevels[k].ops[CurTag(s)], s.node, right.node>>)

\* the loop of the binary-operator rule k, s.node being `left`; the right
\* operand is parsed by the rule below k
BinaryLoop(k, s) ==
  LET right == IF k = 1 THEN Rule("cast_expression", next(s))
               ELSE BinaryLevel(k - 1, next(s))
  IN CASE OutOfBounds(s) -> Panic(s)
       [] CurTag(s) \notin DOMAIN BinaryLevels[k].ops -> s
       [] right.st # "ok" -> right
       [] OTHER -> BinaryLoop(k, Ok(right, <<BinaryLevels[k].ops[CurTag(s)],
                                            s.node, right.node>>))

(***************************************************************************)
(* Expressions                                                             *)
(***************************************************************************)
parse_primary_expression(s) ==
  LET inner == Rule("expression", take(s, "OpenParenthesis"))
      close == take(inner, "CloseParenthesis")
      generic == Rule("generic_selection", s)
  IN CASE OutOfBounds(s) -> Panic(s)
       [] is(s, "Identifier") -> Ok(next(s), <<"Identifier", cur(s).kind.text>>)
       [] is(s, "Integer") -> Ok(next(s), <<"Integer", cur(s).kind>>)
       [] is(s, "String") ->
            Ok(next(s), <<"StringLiteral", cur(s).kind.text, cur(s).kind.encoding>>)
       [] is(s, "OpenParenthesis") ->
            CASE inner.st # "ok" -> inner
              [] close.st # "ok" -> close
              [] OTHER -> Ok(close, <<"Parenthesized", inner.node>>)
       [] is(s, "Generic") ->
            IF generic.st # "ok" THEN generic ELSE Ok(generic, <<"Generic", generic.node>>)
       [] OTHER -> err_expected(s)

parse_generic_selection(s) ==
  LET open == take(take(s, "Generic"), "OpenParenthesis")
      controlling_expression == Rule("assignment_expression", open)
      comma == take(controlling_expression, "Comma")
      assoc_list == Rule("generic_assoc_list", comma)
      close == take(assoc_list, "CloseParenthesis")
  IN CASE open.st # "ok" -> open
       [] controlling_expression.st # "ok" -> controlling_expression
       [] comma.st # "ok" -> comma
       [] assoc_list.st # "ok" -> assoc_list
       [] close.st # "ok" -> close
       [] OTHER -> Ok(close, <<"GenericSelection", controlling_expression.node,
                               assoc_list.node>>)

parse_generic_assoc_list(s) ==
  parse_comma_list(<<"generic_association", FALSE>>, "Leaf", "Rec", s)

parse_generic_association(s) ==
  LET default_colon == take(take(s, "Default"), "Colon")
      default_value == Rule("assignment_expression", default_colon)
      type_name == Rule("type_name", s)
      colon == take(type_name, "Colon")
      value == Rule("assignment_expression", colon)
  IN CASE OutOfBounds(s) -> Panic(s)
       [] is(s, "Default") ->
            CASE default_colon.st # "ok" -> default_colon
              [] default_value.st # "ok" -> default_value
              [] OTHER -> Ok(default_value, <<"Default", default_value.node>>)
       [] type_name.st # "ok" -> type_name
       [] colon.st # "ok" -> colon
       [] value.st # "ok" -> value
       [] OTHER -> Ok(value, <<"ForType", type_name.node, value.node>>)

parse_postfix_expression(s) ==
  LET primary == Rule("primary_expression", s)
      retry == Else(try_to(s, primary))
      compound == Rule("compound_literal", retry)
  IN CASE primary.st = "panic" -> primary
       [] primary.st = "ok" -> PostfixLoop(Ok(primary, <<"Primary", primary.node>>))
       [] compound.st = "panic" -> compound
       [] compound.st = "ok" ->
            PostfixLoop(Ok(compound, <<"CompoundLiteral", compound.node>>))
       [] OTHER -> err_expected(Else(try_to(retry, compound)))

\* the loop of parse_postfix_expression, s.node being `left`
PostfixLoop(s) ==
  LET subscript == Rule("expression", take(s, "OpenBracket"))
      close_bracket == take(subscript, "CloseBracket")
      open == take(s, "OpenParenthesis")
      list == Rule("argument_expression_list", open)
      arguments == maybe(open, list)
      close == take(arguments, "CloseParenthesis")
      member == take_identifier(take(s, "Period"))
      indirect == take_identifier(take(s, "ArrowLeft"))
  IN CASE OutOfBounds(s) -> Panic(s)
       [] is(s, "OpenBracket") ->
            CASE subscript.st # "ok" -> subscript
              [] close_bracket.st # "ok" -> close_bracket
              [] OTHER -> PostfixLoop(Ok(close_bracket, <<"Index", s.node, subscript.node>>))
       [] is(s, "OpenParenthesis") ->
            CASE list.st = "panic" -> list
              [] close.st # "ok" -> close
              [] OTHER -> PostfixLoop(Ok(close, <<"Call", s.node, arguments.node>>))
       [] is(s, "Period") ->
            IF member.st # "ok" THEN member
            ELSE PostfixLoop(Ok(member, <<"Member", s.node, member.node>>))
       [] is(s, "ArrowLeft") ->
            IF indirect.st # "ok" THEN indirect
            ELSE PostfixLoop(Ok(indirect, <<"MemberIndirect", s.node, indirect.node>>))
       [] is(s, "DoublePlus") -> PostfixLoop(Ok(take(s, "DoublePlus"), <<"PostIncrement", s.node>>))
       [] is(s, "DoubleMinus") -> PostfixLoop(Ok(take(s, "DoubleMinus"), <<"PostDecrement", s.node>>))
       [] OTHER -> s

parse_argument_expression_list(s) ==
  parse_comma_list(<<"assignment_expression", FALSE>>, "Leaf", "Rec", s)

\* a callee given a fresh `&mut false`: the caller's own flag is untouched
FreshFlag(s) == [s EXCEPT !.td = FALSE]

\* back in the caller, whose flag is the one it had before the call
CallerFlag(s, r) == [r EXCEPT !.td = s.td]

parse_compound_literal(s) ==
  LET open == take(s, "OpenParenthesis")
      specifiers == Rule("storage_class_specifiers", FreshFlag(open))
      storage_class == CallerFlag(open, maybe(open, specifiers))
      type_name == Rule("type_name", storage_class)
      close == take(type_name, "CloseParenthesis")
      initializer == Rule("braced_initializer", close)
  IN CASE open.st # "ok" -> open
       [] specifiers.st = "panic" -> specifiers
       [] type_name.st # "ok" -> type_name
       [] close.st # "ok" -> close
       [] initializer.st # "ok" -> initializer
       [] OTHER -> Ok(initializer, <<"CompoundLiteral", storage_class.node,
                                     type_name.node, initializer.node>>)

\* the flag `is_typedef: &mut bool` is s.td
parse_storage_class_specifiers(s) == parse_list(<<"storage_class_specifier", FALSE>>, "Leaf", "Rec", s)

UnaryOperator ==
  [Ampersand |-> "AddressOf", Asterisk |-> "Dereference", Plus |-> "Positive",
   Minus |-> "Negative", Tilde |-> "BitNot", Exclamation |-> "LogicalNot"]

parse_unary_expression(s) ==
  LET increment == Rule("unary_expression", take(s, "DoublePlus"))
      decrement == Rule("unary_expression", take(s, "DoubleMinus"))
      operand == Rule("cast_expression", next(s))
      open == take(take(s, "Alignof"), "OpenParenthesis")
      type_name == Rule("type_name", open)
      close == take(type_name, "CloseParenthesis")
      postfix == Rule("postfix_expression", s)
  IN CASE OutOfBounds(s) -> Panic(s)
       [] is(s, "DoublePlus") ->
            IF increment.st # "ok" THEN increment
            ELSE Ok(increment, <<"PreIncrement", increment.node>>)
       [] is(s, "DoubleMinus") ->
            IF decrement.st # "ok" THEN decrement
            ELSE Ok(decrement, <<"PreDecrement", decrement.node>>)
       [] CurTag(s) \in DOMAIN UnaryOperator ->
            IF operand.st # "ok" THEN operand
            ELSE Ok(operand, <<"Operator", UnaryOperator[CurTag(s)], operand.node>>)
       [] is(s, "Sizeof") -> Rule("sizeof_unary_expression", s)
       [] is(s, "Alignof") ->
            CASE open.st # "ok" -> open
              [] type_name.st # "ok" -> type_name
              [] close.st # "ok" -> close
              [] OTHER -> Ok(close, <<"Alignof", type_name.node>>)
       [] postfix.st # "ok" -> postfix
       [] OTHER -> Ok(postfix, <<"Postfix", postfix.node>>)

parse_sizeof_unary_expression(s) ==
  LET sizeof_keyword == take(s, "Sizeof")
      value == Rule("unary_expression", sizeof_keyword)
      open == take(Else(try_to(sizeof_keyword, value)), "OpenParenthesis")
      type_name == Rule("type_name", open)
      close == take(type_name, "CloseParenthesis")
  IN CASE sizeof_keyword.st # "ok" -> sizeof_keyword
       [] value.st = "panic" -> value
       [] value.st = "ok" -> Ok(value, <<"SizeofValue", value.node>>)
       [] open.st # "ok" -> open
       [] type_name.st # "ok" -> type_name
       [] close.st # "ok" -> close
       [] OTHER -> Ok(close, <<"SizeofType", type_name.node>>)

\* what parse_cast_expression leaves behind when it returns Ok: where it
\* started, where it stopped and what it built
CastParsed(s, r) ==
  [ev |-> "cast_expression", index_before |-> s.index, index_after |-> r.index,
   scopes |-> s.scopes, node |-> r.node]

\* parse_cast_expression as it would be if a failed cast were all there is
parse_cast_expression_without_fallback(s) ==
  LET cast == Rule("actual_cast_expression", s)
  IN CASE cast.st = "ok" -> [cast EXCEPT !.log = Append(@, CastParsed(s, cast))]
       [] OTHER -> try_to(s, cast)

parse_cast_expression(s) ==
  LET cast == Rule("actual_cast_expression", s)
      unary == Rule("unary_expression", Else(try_to(s, cast)))
      wrapped == Ok(unary, <<"Unary", unary.node>>)
  IN CASE cast.st = "panic" -> cast
       [] cast.st = "ok" -> [cast EXCEPT !.log = Append(@, CastParsed(s, cast))]
       [] unary.st # "ok" -> unary
       [] OTHER -> [wrapped EXCEPT !.log = Append(@, CastParsed(s, wrapped))]

parse_actual_cast_expression(s) ==
  LET open == take(s, "OpenParenthesis")
      type_name == Rule("type_name", open)
      close == take(type_name, "CloseParenthesis")
      right == Rule("cast_expression", close)
  IN CASE open.st # "ok" -> open
       [] type_name.st # "ok" -> type_name
       [] close.st # "ok" -> close
       [] right.st # "ok" -> right
       [] OTHER -> Ok(right, <<"Cast", type_name.node, right.node>>)

parse_multiplicative_expression(s) == BinaryLevel(1, s)

parse_additive_expression(s) == BinaryLevel(2, s)

parse_shift_expression(s) == BinaryLevel(3, s)

parse_relational_expression(s) == BinaryLevel(4, s)

parse_equality_expression(s) == BinaryLevel(5, s)

parse_and_expression(s) == BinaryLevel(6, s)

parse_exclusive_or_expression(s) == BinaryLevel(7, s)

parse_inclusive_or_expression(s) == BinaryLevel(8, s)

parse_logical_and_expression(s) == BinaryLevel(9, s)

parse_logical_or_expression(s) == BinaryLevel(10, s)

parse_conditional_expression(s) ==
  LET left == Rule("logical_or_expression", s)
      then_value == Rule("expression", take(left, "Question"))
      colon == take(then_value, "Colon")
      else_value == Rule("conditional_expression", colon)
  IN CASE left.st # "ok" -> left
       [] OutOfBounds(left) -> Panic(left)
       [] ~is(left, "Question") -> Ok(left, <<"LogicalOr", left.node>>)
       [] then_value.st # "ok" -> then_value
       [] colon.st # "ok" -> colon
       [] else_value.st # "ok" -> else_value
       [] OTHER -> Ok(else_value, <<"Conditional", left.node, then_value.node,
                                    else_value.node>>)

parse_assignment_expression(s) ==
  LET assignment == Rule("actual_assignment_expression", s)
      left == Rule("conditional_expression", Else(try_to(s, assignment)))
  IN CASE assignment.st # "err" -> assignment
       [] left.st # "ok" -> left
       [] OTHER -> Ok(left, <<"Conditional", left.node>>)

AssignmentOperator ==
  [Equal |-> "Assign", AsteriskEqual |-> "Multiply", SlashEqual |-> "Divide",
   PercentEqual |-> "Modulo", PlusEqual |-> "Add", MinusEqual |-> "Subtract",
   DoubleLessEqual |-> "ShiftLeft", DoubleGreaterEqual |-> "ShiftRight",
   AmpersandEqual |-> "And", CaretEqual |-> "Xor", BarEqual |-> "Or"]

parse_actual_assignment_expression(s) ==
  LET left == Rule("unary_expression", s)
      right == Rule("assignment_expression", next(left))
  IN CASE left.st # "ok" -> left
       [] OutOfBounds(left) -> Panic(left)
       [] CurTag(left) \notin DOMAIN AssignmentOperator -> err_expected(left)
       [] right.st # "ok" -> right
       [] OTHER -> Ok(right, <<"Assignment", left.node,
                               AssignmentOperator[CurTag(left)], right.node>>)

parse_expression(s) == parse_comma_list(<<"assignment_expression", FALSE>>, "Assign", "Comma", s)

parse_constant_expression(s) ==
  LET inner == Rule("conditional_expression", s)
  IN IF inner.st # "ok" THEN inner ELSE Ok(inner, <<"ConstantExpression", inner.node>>)

(***************************************************************************)
(* Declarations                                                            *)
(***************************************************************************)
\* a rule that is one `match self.cur().kind` over keywords followed by
\* self.next(): variants maps the tag of the token to the variant built
KeywordRule(variants, s) ==
  IF OutOfBounds(s) THEN Panic(s)
  ELSE IF CurTag(s) \notin DOMAIN variants THEN err_expected(s)
  ELSE Ok(next(s), <<variants[CurTag(s)]>>)

parse_declaration(s) ==
  LET assert == Rule("static_assert_declaration", s)
      attribute_start == Else(try_to(s, assert))
      attribute == Rule("attribute_declaration", attribute_start)
      sequence_start == Else(try_to(attribute_start, attribute))
      attributes == Rule("attribute_specifier_sequence", sequence_start)
      with_list == Rule("declaration_specifiers", FreshFlag(attributes))
      with_specifiers == CallerFlag(s, with_list)
      with_declarators == RuleWith("init_declarator_list", with_specifiers, with_list.td)
      with_semicolon == take(with_declarators, "Semicolon")
      normal_start == Else(try_to(sequence_start, attributes))
      list == Rule("declaration_specifiers", FreshFlag(normal_start))
      specifiers == CallerFlag(s, list)
      init_declarators == RuleWith("init_declarator_list", specifiers, list.td)
      declarators == maybe(specifiers, init_declarators)
      semicolon == take(declarators, "Semicolon")
  IN CASE assert.st = "panic" -> assert
       [] assert.st = "ok" -> Ok(assert, <<"Assert", assert.node>>)
       [] attribute.st = "panic" -> attribute
       [] attribute.st = "ok" -> Ok(attribute, <<"Attribute", attribute.node>>)
       [] attributes.st = "panic" -> attributes
       [] attributes.st = "ok" ->
            CASE with_list.st # "ok" -> with_specifiers
              [] with_declarators.st # "ok" -> with_declarators
              [] with_semicolon.st # "ok" -> with_semicolon
              [] OTHER -> Ok(with_semicolon, <<"WithAttributes", attributes.node,
                                               with_specifiers.node,
                                               with_declarators.node>>)
       [] list.st # "ok" -> specifiers
       [] init_declarators.st = "panic" -> init_declarators
       [] semicolon.st # "ok" -> semicolon
       [] OTHER -> Ok(semicolon, <<"Normal", specifiers.node, declarators.node>>)

\* the flag `is_typedef: &mut bool` is s.td
parse_declaration_specifiers(s) ==
  LET specifier == Rule("declaration_specifier", s)
      cons == Rule("declaration_specifiers", specifier)
      retry == Else(try_to(specifier, cons))
      sequence == Rule("attribute_specifier_sequence", retry)
      attributes == maybe(retry, sequence)
  IN CASE specifier.st # "ok" -> specifier
       [] cons.st = "panic" -> cons
       [] cons.st = "ok" -> Ok(cons, <<"Rec", specifier.node, cons.node>>)
       [] sequence.st = "panic" -> sequence
       [] OTHER -> Ok(attributes, <<"Leaf", specifier.node, attributes.node>>)

\* the flag `is_typedef: &mut bool` is s.td
parse_declaration_specifier(s) ==
  LET storage_class == Rule("storage_class_specifier", s)
      type_start == Else(try_to(s, storage_class))
      type_specifier == Rule("type_specifier_qualifier", type_start)
      function_start == Else(try_to(type_start, type_specifier))
      function == Rule("function_specifier", function_start)
  IN CASE storage_class.st = "panic" -> storage_class
       [] storage_class.st = "ok" ->
            Ok(storage_class, <<"StorageClass", storage_class.node>>)
       [] type_specifier.st = "panic" -> type_specifier
       [] type_specifier.st = "ok" ->
            Ok(type_specifier, <<"TypeSpecifier", type_specifier.node>>)
       [] function.st = "panic" -> function
       [] function.st = "ok" -> Ok(function, <<"FunctionSpecifier", function.node>>)
       [] OTHER -> err_expected(Else(try_to(function_start, function)))

parse_init_declarator_list(s, is_typedef) ==
  parse_comma_list(<<"init_declarator", is_typedef>>, "Leaf", "Rec", s)

parse_init_declarator(s, is_typedef) ==
  LET declarator == RuleWith("declarator", s, is_typedef)
      initializer == Rule("initializer", take(declarator, "Equal"))
  IN CASE declarator.st # "ok" -> declarator
       [] OutOfBounds(declarator) -> Panic(declarator)
       [] ~is(declarator, "Equal") -> Ok(declarator, <<"NoInitializer", declarator.node>>)
       [] initializer.st # "ok" -> initializer
       [] OTHER -> Ok(initializer, <<"Initializer", declarator.node, initializer.node>>)

parse_attribute_declaration(s) ==
  LET attributes == Rule("attribute_specifier_sequence", s)
      semicolon == take(attributes, "Semicolon")
  IN CASE attributes.st # "ok" -> attributes
       [] semicolon.st # "ok" -> semicolon
       [] OTHER -> Ok(semicolon, <<"AttributeDeclaration", attributes.node>>)

StorageClassSpecifier ==
  [Auto |-> "Auto", Constexpr |-> "Constexpr", Extern |-> "Extern",
   Register |-> "Register", Static |-> "Static", ThreadLocal |-> "ThreadLocal",
   Typedef |-> "Typedef"]

\* the flag `is_typedef: &mut bool` is s.td
parse_storage_class_specifier(s) ==
  LET specifier == KeywordRule(StorageClassSpecifier, s)
  IN CASE specifier.st # "ok" -> specifier
       [] specifier.node = <<"Typedef">> -> [specifier EXCEPT !.td = TRUE]
       [] OTHER -> specifier

SimpleTypeSpecifier ==
  [Void |-> "Void", Char |-> "Char", Short |-> "Short", Int |-> "Int", Long |-> "Long",
   Float |-> "Float", Double |-> "Double", Signed |-> "Signed", Unsigned |-> "Unsigned",
   Bool |-> "Bool", Complex |-> "Complex", Decimal32 |-> "Decimal32",
   Decimal64 |-> "Decimal64", Decimal128 |-> "Decimal128"]

parse_type_specifier(s) ==
  LET open == take(take(s, "BitInt"), "OpenParenthesis")
      width == Rule("constant_expression", open)
      close == take(width, "CloseParenthesis")
      atomic == Rule("atomic_type_specifier", s)
      struct_start == Else(try_to(s, atomic))
      struct_or_union == Rule("struct_or_union_specifier", struct_start)
      enum_start == Else(try_to(struct_start, struct_or_union))
      enum == Rule("enum_specifier", enum_start)
      typedef_start == Else(try_to(enum_start, enum))
      typedef_name == Rule("typedef_name", typedef_start)
      typeof_start == Else(try_to(typedef_start, typedef_name))
      typeof == Rule("typeof_specifier", typeof_start)
  IN CASE OutOfBounds(s) -> Panic(s)
       [] CurTag(s) \in DOMAIN SimpleTypeSpecifier ->
            Ok(next(s), <<SimpleTypeSpecifier[CurTag(s)]>>)
       [] is(s, "BitInt") ->
            CASE open.st # "ok" -> open
              [] width.st # "ok" -> width
              [] close.st # "ok" -> close
              [] OTHER -> Ok(close, <<"BitInt", width.node>>)
       [] atomic.st = "panic" -> atomic
       [] atomic.st = "ok" -> Ok(atomic, <<"Atomic", atomic.node>>)
       [] struct_or_union.st = "panic" -> struct_or_union
       [] struct_or_union.st = "ok" ->
            Ok(struct_or_union, <<"StructOrUnion", struct_or_union.node>>)
       [] enum.st = "panic" -> enum
       [] enum.st = "ok" -> Ok(enum, <<"Enum", enum.node>>)
       [] typedef_name.st = "panic" -> typedef_name
       [] typedef_name.st = "ok" -> Ok(typedef_name, <<"TypedefName", typedef_name.node>>)
       [] typeof.st = "panic" -> typeof
       [] typeof.st = "ok" -> Ok(typeof, <<"Typeof", typeof.node>>)
       [] OTHER -> err_expected(Else(try_to(typeof_start, typeof)))

parse_struct_or_union_specifier(s) ==
  LET struct_or_union == Rule("struct_or_union", s)
      sequence == Rule("attribute_specifier_sequence", struct_or_union)
      attributes == maybe(struct_or_union, sequence)
      with_list == Rule("with_list", attributes)
      tag == take_identifier(Else(try_to(attributes, with_list)))
  IN CASE struct_or_union.st # "ok" -> struct_or_union
       [] sequence.st = "panic" -> sequence
       [] with_list.st = "panic" -> with_list
       [] with_list.st = "ok" ->
            Ok(with_list, <<"WithMembers", struct_or_union.node, attributes.node,
                            with_list.node[1], with_list.node[2]>>)
       [] tag.st # "ok" -> tag
       [] OTHER -> Ok(tag, <<"WithoutMembers", struct_or_union.node, attributes.node,
                             tag.node>>)

\* the closure parse_with_list of parse_struct_or_union_specifier
parse_with_list(s) ==
  LET name == take_identifier(s)
      tag == maybe(s, name)
      open == take(tag, "OpenBrace")
      members == Rule("member_declaration_list", open)
      close == take(members, "CloseBrace")
  IN CASE name.st = "panic" -> name
       [] open.st # "ok" -> open
       [] members.st # "ok" -> members
       [] close.st # "ok" -> close
       [] OTHER -> Ok(close, <<tag.node, members.node>>)

\* the keyword is looked at and not passed
parse_struct_or_union(s) ==
  CASE OutOfBounds(s) -> Panic(s)
    [] is(s, "Struct") -> Ok(s, <<"Struct">>)
    [] is(s, "Union") -> Ok(s, <<"Union">>)
    [] OTHER -> err_expected(s)

parse_member_declaration_list(s) ==
  parse_list(<<"member_declaration", FALSE>>, "Leaf", "Rec", s)

parse_member_declaration(s) ==
  LET assert == Rule("static_assert_declaration", s)
      retry == Else(try_to(s, assert))
      sequence == Rule("attribute_specifier_sequence", retry)
      attributes == maybe(retry, sequence)
      specifiers == Rule("specifier_qualifier_list", attributes)
      list == Rule("member_declarator_list", specifiers)
      declarators == maybe(specifiers, list)
      semicolon == take(declarators, "Semicolon")
  IN CASE assert.st = "panic" -> assert
       [] assert.st = "ok" -> Ok(assert, <<"Assert", assert.node>>)
       [] sequence.st = "panic" -> sequence
       [] specifiers.st # "ok" -> specifiers
       [] list.st = "panic" -> list
       [] semicolon.st # "ok" -> semicolon
       [] OTHER -> Ok(semicolon, <<"Member", attributes.node, specifiers.node,
                                   declarators.node>>)

parse_specifier_qualifier_list(s) ==
  LET specifier == Rule("type_specifier_qualifier", s)
      cons == Rule("specifier_qualifier_list", specifier)
      retry == Else(try_to(specifier, cons))
      sequence == Rule("attribute_specifier_sequence", retry)
      attributes == maybe(retry, sequence)
  IN CASE specifier.st # "ok" -> specifier
       [] cons.st = "panic" -> cons
       [] cons.st = "ok" -> Ok(cons, <<"Rec", specifier.node, cons.node>>)
       [] sequence.st = "panic" -> sequence
       [] OTHER -> Ok(attributes, <<"Leaf", specifier.node, attributes.node>>)

parse_type_specifier_qualifier(s) ==
  LET specifier == Rule("type_specifier", s)
      qualifier_start == Else(try_to(s, specifier))
      qualifier == Rule("type_qualifier", qualifier_start)
      alignment_start == Else(try_to(qualifier_start, qualifier))
      alignment == Rule("alignment_specifier", alignment_start)
  IN CASE specifier.st = "panic" -> specifier
       [] specifier.st = "ok" -> Ok(specifier, <<"TypeSpecifier", specifier.node>>)
       [] qualifier.st = "panic" -> qualifier
       [] qualifier.st = "ok" -> Ok(qualifier, <<"TypeQualifier", qualifier.node>>)
       [] alignment.st = "panic" -> alignment
       [] alignment.st = "ok" -> Ok(alignment, <<"AlignmentSpecifier", alignment.node>>)
       [] OTHER -> err_expected(Else(try_to(alignment_start, alignment)))

parse_member_declarator_list(s) ==
  parse_comma_list(<<"member_declarator", FALSE>>, "Leaf", "Rec", s)

parse_member_declarator(s) ==
  LET with_colon == Rule("with_colon", s)
      declarator == RuleWith("declarator", Else(try_to(s, with_colon)), FALSE)
  IN CASE OutOfBounds(s) -> Panic(s)
       [] with_colon.st = "panic" -> with_colon
       [] with_colon.st = "ok" ->
            Ok(with_colon, <<"WithWidth", with_colon.node[1], with_colon.node[2]>>)
       [] declarator.st # "ok" -> declarator
       [] OTHER -> Ok(declarator, <<"WithoutWidth", declarator.node>>)

\* the closure parse_with_colon of parse_member_declarator
parse_with_colon(s) ==
  LET inner == RuleWith("declarator", s, FALSE)
      declarator == maybe(s, inner)
      colon == take(declarator, "Colon")
      value == Rule("constant_expression", colon)
  IN CASE inner.st = "panic" -> inner
       [] colon.st # "ok" -> colon
       [] value.st # "ok" -> value
       [] OTHER -> Ok(value, <<declarator.node, value.node>>)

parse_enum_specifier(s) ==
  LET enum_keyword == take(s, "Enum")
      with_members == Rule("with_members", enum_keyword)
      tag == take_identifier(Else(try_to(enum_keyword, with_members)))
      specifier == Rule("enum_type_specifier", tag)
      enum_type == maybe(tag, specifier)
  IN CASE enum_keyword.st # "ok" -> enum_keyword
       [] with_members.st = "panic" -> with_members
       [] with_members.st = "ok" -> Ok(with_members, <<"WithList">> \o with_members.node)
       [] tag.st # "ok" -> tag
       [] specifier.st = "panic" -> specifier
       [] OTHER -> Ok(enum_type, <<"WithoutList", tag.node, enum_type.node>>)

\* the closure parse_with_members of parse_enum_specifier
parse_with_members(s) ==
  LET sequence == Rule("attribute_specifier_sequence", s)
      attributes == maybe(s, sequence)
      name == take_identifier(attributes)
      tag == maybe(attributes, name)
      specifier == Rule("enum_type_specifier", tag)
      enum_type == maybe(tag, specifier)
      open == take(enum_type, "OpenBrace")
      members == Rule("enumerator_list", open)
      last == take(members, "Comma")
      comma == maybe(members, last)
      close == take(comma, "CloseBrace")
  IN CASE sequence.st = "panic" -> sequence
       [] name.st = "panic" -> name
       [] specifier.st = "panic" -> specifier
       [] open.st # "ok" -> open
       [] members.st # "ok" -> members
       [] last.st = "panic" -> last
       [] close.st # "ok" -> close
       [] OTHER -> Ok(close, <<attributes.node, tag.node, enum_type.node, members.node>>)

parse_enumerator_list(s) == parse_comma_list(<<"enumerator", FALSE>>, "Leaf", "Rec", s)

parse_enumerator(s) ==
  LET name == take_identifier(s)
      sequence == Rule("attribute_specifier_sequence", name)
      attributes == maybe(name, sequence)
      value == Rule("constant_expression", take(attributes, "Equal"))
  IN CASE OutOfBounds(s) -> Panic(s)
       [] name.st # "ok" -> name
       [] sequence.st = "panic" -> sequence
       [] OutOfBounds(attributes) -> Panic(attributes)
       [] ~is(attributes, "Equal") ->
            Ok(attributes, <<"WithoutValue", name.node, attributes.node>>)
       [] value.st # "ok" -> value
       [] OTHER -> Ok(value, <<"WithValue", name.node, attributes.node, value.node>>)

parse_enum_type_specifier(s) ==
  LET colon == take(s, "Colon")
      specifiers == Rule("specifier_qualifier_list", colon)
  IN CASE colon.st # "ok" -> colon
       [] specifiers.st # "ok" -> specifiers
       [] OTHER -> Ok(specifiers, <<"EnumTypeSpecifier", specifiers.node>>)

parse_atomic_type_specifier(s) ==
  LET open == take(take(s, "Atomic"), "OpenParenthesis")
      type_name == Rule("type_name", open)
      close == take(type_name, "CloseParenthesis")
  IN CASE open.st # "ok" -> open
       [] type_name.st # "ok" -> type_name
       [] close.st # "ok" -> close
       [] OTHER -> Ok(close, <<"AtomicTypeSpecifier", type_name.node>>)

parse_typeof_specifier(s) ==
  LET open == take(next(s), "OpenParenthesis")
      argument == Rule("typeof_specifier_argument", open)
      close == take(argument, "CloseParenthesis")
  IN CASE OutOfBounds(s) -> Panic(s)
       [] ~(is(s, "Typeof") \/ is(s, "TypeofUnqual")) -> err_expected(s)
       [] open.st # "ok" -> open
       [] argument.st # "ok" -> argument
       [] close.st # "ok" -> close
       [] OTHER -> Ok(close, <<CurTag(s), argument.node>>)

parse_typeof_specifier_argument(s) ==
  LET expression == Rule("expression", s)
      type_name == Rule("type_name", Else(try_to(s, expression)))
  IN CASE expression.st = "panic" -> expression
       [] expression.st = "ok" -> Ok(expression, <<"Expression", expression.node>>)
       [] type_name.st # "ok" -> type_name
       [] OTHER -> Ok(type_name, <<"Type", type_name.node>>)

parse_type_qualifier(s) ==
  KeywordRule([Const |-> "Const", Restrict |-> "Restrict", Volatile |-> "Volatile",
               Atomic |-> "Atomic"], s)

parse_function_specifier(s) ==
  KeywordRule([Inline |-> "Inline", Noreturn |-> "NoReturn"], s)

parse_alignment_specifier(s) ==
  LET open == take(take(s, "Alignas"), "OpenParenthesis")
      type_name == Rule("type_name", open)
      type_close == take(type_name, "CloseParenthesis")
      expression == Rule("constant_expression", Else(try_to(open, type_name)))
      close == take(expression, "CloseParenthesis")
  IN CASE open.st # "ok" -> open
       [] type_name.st = "panic" -> type_name
       [] type_name.st = "ok" ->
            IF type_close.st # "ok" THEN type_close
            ELSE Ok(type_close, <<"AsType", type_name.node>>)
       [] expression.st # "ok" -> expression
       [] close.st # "ok" -> close
       [] OTHER -> Ok(close, <<"AsExpression", expression.node>>)

(***************************************************************************)
(* Declarators                                                             *)
(***************************************************************************)
parse_declarator(s, is_typedef) ==
  LET outer == Rule("pointer", s)
      pointer == maybe(s, outer)
      direct == RuleWith("direct_declarator", pointer, is_typedef)
  IN CASE OutOfBounds(s) -> Panic(s)
       [] outer.st = "panic" -> outer
       [] direct.st # "ok" -> direct
       [] OTHER -> Ok(direct, <<"Declarator", pointer.node, direct.node>>)

parse_direct_declarator(s, is_typedef) ==
  LET left == RuleWith("direct_declarator_leaf", s, is_typedef)
  IN IF left.st # "ok" THEN left ELSE DirectDeclaratorLoop(left)

\* the loop of parse_direct_declarator, s.node being `left`
DirectDeclaratorLoop(s) ==
  LET array == Rule("array_declarator", s)
      function == Rule("function_declarator", s)
  IN CASE OutOfBounds(s) -> Panic(s)
       [] is(s, "OpenBracket") ->
            IF array.st # "ok" THEN array ELSE DirectDeclaratorLoop(array)
       [] is(s, "OpenParenthesis") ->
            IF function.st # "ok" THEN function ELSE DirectDeclaratorLoop(function)
       [] OTHER -> s

\* what parse_direct_declarator_leaf leaves behind when it inserts a name
\* into the typedefs of the innermost scope
TypedefRegistered(s, name) ==
  [ev |-> "typedef_registered", index |-> s.index, name |-> name, depth |-> Len(s.scopes)]

\* the insertion as it would be if it went into the outermost frame
InsertTypedef_outermost(s, name) ==
  IF Len(s.scopes) = 0 THEN Panic(s)
  ELSE [s EXCEPT !.scopes[1] = @ \cup {name},
                 !.log = Append(@, TypedefRegistered(s, name))]

\* self.scopes.last_mut().unwrap().typedefs.insert(name)
InsertTypedef(s, name) ==
  IF Len(s.scopes) = 0 THEN Panic(s)
  ELSE [s EXCEPT !.scopes[Len(s.scopes)] = @ \cup {name},
                 !.log = Append(@, TypedefRegistered(s, name))]

parse_direct_declarator_leaf(s, is_typedef) ==
  LET inner == RuleWith("declarator", take(s, "OpenParenthesis"), is_typedef)
      close == take(inner, "CloseParenthesis")
      name == take_identifier(s)
      sequence == Rule("attribute_specifier_sequence", name)
      attributes == maybe(name, sequence)
      registered == IF is_typedef THEN InsertTypedef(attributes, name.node) ELSE attributes
  IN CASE OutOfBounds(s) -> Panic(s)
       [] is(s, "OpenParenthesis") ->
            CASE inner.st # "ok" -> inner
              [] close.st # "ok" -> close
              [] OTHER -> Ok(close, <<"Parenthesized", inner.node>>)
       [] name.st # "ok" -> name
       [] sequence.st = "panic" -> sequence
       [] registered.st # "ok" -> registered
       [] OTHER -> Ok(registered, <<"Name", name.node, attributes.node>>)

\* s.node is `left`
parse_array_declarator(s) ==
  LET open == take(s, "OpenBracket")
      first_list == Rule("type_qualifier_list", take(open, "Static"))
      first_qualifiers == maybe(take(open, "Static"), first_list)
      first_length == Rule("assignment_expression", first_qualifiers)
      first_close == take(first_length, "CloseBracket")
      list == Rule("type_qualifier_list", open)
      qualifiers == maybe(open, list)
      mid_length == Rule("assignment_expression", take(qualifiers, "Static"))
      mid_close == take(mid_length, "CloseBracket")
      variable_close == take(take(qualifiers, "Asterisk"), "CloseBracket")
      expression == Rule("assignment_expression", qualifiers)
      length == maybe(qualifiers, expression)
      close == take(length, "CloseBracket")
  IN CASE open.st # "ok" -> open
       [] OutOfBounds(open) -> Panic(open)
       [] is(open, "Static") ->
            CASE first_list.st = "panic" -> first_list
              [] first_length.st # "ok" -> first_length
              [] first_close.st # "ok" -> first_close
              [] OTHER -> ArrayDeclaratorEnd(first_close,
                            <<"StaticFirst", s.node, first_qualifiers.node,
                              first_length.node>>)
       [] list.st = "panic" -> list
       [] OutOfBounds(qualifiers) -> Panic(qualifiers)
       [] qualifiers.node # None /\ is(qualifiers, "Static") ->
            CASE mid_length.st # "ok" -> mid_length
              [] mid_close.st # "ok" -> mid_close
              [] OTHER -> ArrayDeclaratorEnd(mid_close,
                            <<"StaticMid", s.node, qualifiers.node, mid_length.node>>)
       [] is(qualifiers, "Asterisk") ->
            IF variable_close.st # "ok" THEN variable_close
            ELSE ArrayDeclaratorEnd(variable_close,
                                    <<"Variable", s.node, qualifiers.node>>)
       [] expression.st = "panic" -> expression
       [] close.st # "ok" -> close
       [] OTHER -> ArrayDeclaratorEnd(close, <<"NoStatic", s.node, qualifiers.node,
                                               length.node>>)

\* the end of parse_array_declarator, decl being the ArrayDeclarator built
ArrayDeclaratorEnd(s, decl) ==
  LET sequence == Rule("attribute_specifier_sequence", s)
      attributes == maybe(s, sequence)
  IN IF sequence.st = "panic" THEN sequence
     ELSE Ok(attributes, <<"Array", decl, attributes.node>>)

\* s.node is `left`
parse_function_declarator(s) ==
  LET open == take(s, "OpenParenthesis")
      list == Rule("parameter_type_list", open)
      parameters == maybe(open, list)
      close == take(parameters, "CloseParenthesis")
      sequence == Rule("attribute_specifier_sequence", close)
      attributes == maybe(close, sequence)
  IN CASE open.st # "ok" -> open
       [] list.st = "panic" -> list
       [] close.st # "ok" -> close
       [] sequence.st = "panic" -> sequence
       [] OTHER -> Ok(attributes, <<"Function", <<"FunctionDeclarator", s.node,
                                                  parameters.node>>, attributes.node>>)

parse_pointer(s) ==
  LET asterisk == take(s, "Asterisk")
      sequence == Rule("attribute_specifier_sequence", asterisk)
      attributes == maybe(asterisk, sequence)
      list == Rule("type_qualifier_list", attributes)
      qualifiers == maybe(attributes, list)
      outer == Rule("pointer", qualifiers)
  IN CASE asterisk.st # "ok" -> asterisk
       [] sequence.st = "panic" -> sequence
       [] list.st = "panic" -> list
       [] outer.st = "panic" -> outer
       [] outer.st = "ok" ->
            Ok(outer, <<"Rec", attributes.node, qualifiers.node, outer.node>>)
       [] OTHER -> Ok(Else(try_to(qualifiers, outer)),
                      <<"Leaf", attributes.node, qualifiers.node>>)

parse_type_qualifier_list(s) == parse_list(<<"type_qualifier", FALSE>>, "Leaf", "Rec", s)

parse_parameter_type_list(s) ==
  LET parameters == Rule("parameter_list", s)
      ellipses == take(take(parameters, "Comma"), "Ellipses")
  IN CASE OutOfBounds(s) -> Panic(s)
       [] is(s, "Ellipses") -> Ok(take(s, "Ellipses"), <<"Var">>)
       [] parameters.st # "ok" -> parameters
       [] OutOfBounds(parameters) -> Panic(parameters)
       [] ~is(parameters, "Comma") -> Ok(parameters, <<"NoVar", parameters.node>>)
       [] ellipses.st # "ok" -> ellipses
       [] OTHER -> Ok(ellipses, <<"WithVar", parameters.node>>)

parse_parameter_list(s) ==
  parse_comma_list(<<"parameter_declaration", FALSE>>, "Leaf", "Rec", s)

parse_parameter_declaration(s) ==
  LET sequence == Rule("attribute_specifier_sequence", s)
      attributes == maybe(s, sequence)
      list == Rule("declaration_specifiers", FreshFlag(attributes))
      specifiers == CallerFlag(s, list)
      declarator == RuleWith("declarator", specifiers, FALSE)
      retry == Else(try_to(specifiers, declarator))
      inner == Rule("abstract_declarator", retry)
      abstract == maybe(retry, inner)
  IN CASE OutOfBounds(s) -> Panic(s)
       [] sequence.st = "panic" -> sequence
       [] list.st # "ok" -> specifiers
       [] declarator.st = "panic" -> declarator
       [] declarator.st = "ok" ->
            Ok(declarator, <<"Concrete", attributes.node, specifiers.node,
                             declarator.node>>)
       [] inner.st = "panic" -> inner
       [] OTHER -> Ok(abstract, <<"Abstract", attributes.node, specifiers.node,
                                  abstract.node>>)

parse_type_name(s) ==
  LET specifiers == Rule("specifier_qualifier_list", s)
      inner == Rule("abstract_declarator", specifiers)
      declarator == maybe(specifiers, inner)
  IN CASE specifiers.st # "ok" -> specifiers
       [] inner.st = "panic" -> inner
       [] OTHER -> Ok(declarator, <<"TypeName", specifiers.node, declarator.node>>)
parse_abstract_declarator(s) ==
  LET pointer == Rule("pointer", s)
      after == Rule("direct_abstract_declarator", pointer)
      direct == Rule("direct_abstract_declarator", Else(try_to(s, pointer)))
  IN CASE pointer.st = "panic" -> pointer
       [] pointer.st = "ok" ->
            CASE after.st = "panic" -> after
              [] after.st = "ok" -> Ok(after, <<"Direct", pointer.node, after.node>>)
              [] OTHER -> Ok(Else(try_to(pointer, after)), <<"Pointer", pointer.node>>)
       [] direct.st # "ok" -> direct
       [] OTHER -> Ok(direct, <<"Direct", None, direct.node>>)

parse_direct_abstract_declarator(s) ==
  LET inner == Rule("direct_abstract_declarator_leaf", s)
      left == DirectAbstractDeclaratorLoop(maybe(s, inner))
  IN CASE inner.st = "panic" -> inner
       [] left.st # "ok" -> left
       [] left.node = None -> err_expected(left)
       [] OTHER -> left

\* the loop of parse_direct_abstract_declarator, s.node being `left`
DirectAbstractDeclaratorLoop(s) ==
  LET array == Rule("array_abstract_declarator", s)
      function == Rule("function_abstract_declarator", s)
  IN CASE OutOfBounds(s) -> Panic(s)
       [] is(s, "OpenBracket") ->
            IF array.st # "ok" THEN array ELSE DirectAbstractDeclaratorLoop(array)
       [] is(s, "OpenParenthesis") ->
            IF function.st # "ok" THEN function
            ELSE DirectAbstractDeclaratorLoop(function)
       [] OTHER -> s

parse_direct_abstract_declarator_leaf(s) ==
  LET open == take(s, "OpenParenthesis")
      inner == Rule("abstract_declarator", open)
      close == take(inner, "CloseParenthesis")
  IN CASE open.st # "ok" -> open
       [] inner.st # "ok" -> inner
       [] close.st # "ok" -> close
       [] OTHER -> Ok(close, <<"Parenthesized", inner.node>>)

\* s.node is `left`
parse_array_abstract_declarator(s) ==
  LET open == take(s, "OpenBracket")
      first_list == Rule("type_qualifier_list", take(open, "Static"))
      first_qualifiers == maybe(take(open, "Static"), first_list)
      first_length == Rule("assignment_expression", first_qualifiers)
      first_close == take(first_length, "CloseBracket")
      variable_close == take(take(open, "Asterisk"), "CloseBracket")
      list == Rule("type_qualifier_list", open)
      qualifiers == maybe(open, list)
      mid_length == Rule("assignment_expression", take(qualifiers, "Static"))
      mid_close == take(mid_length, "CloseBracket")
      expression == Rule("assignment_expression", qualifiers)
      length == maybe(qualifiers, expression)
      close == take(length, "CloseBracket")
  IN CASE open.st # "ok" -> open
       [] OutOfBounds(open) -> Panic(open)
       [] is(open, "Static") ->
            CASE first_list.st = "panic" -> first_list
              [] first_length.st # "ok" -> first_length
              [] first_close.st # "ok" -> first_close
              [] OTHER -> ArrayAbstractDeclaratorEnd(first_close,
                            <<"StaticFirst", s.node, first_qualifiers.node,
                              first_length.node>>)
       [] is(open, "Asterisk") ->
            IF variable_close.st # "ok" THEN variable_close
            ELSE ArrayAbstractDeclaratorEnd(variable_close, <<"Variable", s.node>>)
       [] list.st = "panic" -> list
       [] qualifiers.node # None /\ OutOfBounds(qualifiers) -> Panic(qualifiers)
       [] qualifiers.node # None /\ is(qualifiers, "Static") ->
            CASE mid_length.st # "ok" -> mid_length
              [] mid_close.st # "ok" -> mid_close
              [] OTHER -> ArrayAbstractDeclaratorEnd(mid_close,
                            <<"StaticMid", s.node, qualifiers.node, mid_length.node>>)
       [] expression.st = "panic" -> expression
       [] close.st # "ok" -> close
       [] OTHER -> ArrayAbstractDeclaratorEnd(close, <<"NoStatic", s.node,
                                                       qualifiers.node, length.node>>)

\* the end of parse_array_abstract_declarator, decl being the declarator built
ArrayAbstractDeclaratorEnd(s, decl) ==
  LET sequence == Rule("attribute_specifier_sequence", s)
      attributes == maybe(s, sequence)
  IN IF sequence.st = "panic" THEN sequence
     ELSE Ok(attributes, <<"Array", decl, attributes.node>>)

\* s.node is `left`
parse_function_abstract_declarator(s) ==
  LET open == take(s, "OpenParenthesis")
      list == Rule("parameter_type_list", open)
      parameters == maybe(open, list)
      close == take(parameters, "CloseParenthesis")
      sequence == Rule("attribute_specifier_sequence", close)
      attributes == maybe(close, sequence)
  IN CASE OutOfBounds(s) -> Panic(s)
       [] open.st # "ok" -> open
       [] list.st = "panic" -> list
       [] close.st # "ok" -> close
       [] sequence.st = "panic" -> sequence
       [] OTHER -> Ok(attributes, <<"Function", <<"FunctionAbstractDeclarator", s.node,
                                                  parameters.node>>, attributes.node>>)

\* what parse_typedef_name leaves behind when it takes an identifier for the
\* name of a type
TypedefNameTaken(s, name) ==
  [ev |-> "typedef_name", index |-> s.index, name |-> name, depth |-> Len(s.scopes)]

\* the typedefs that parse_typedef_name consults: self.scopes.last().unwrap()
VisibleTypedefs(sc) == sc[Len(sc)]

\* parse_typedef_name as it would be without the look into the scope
parse_typedef_name_unchecked(s) ==
  CASE OutOfBounds(s) -> Panic(s)
    [] ~is(s, "Identifier") -> err_expected(s)
    [] OTHER -> [next(s) EXCEPT !.node = cur(s).kind.text,
                                !.log = Append(@, TypedefNameTaken(s, cur(s).kind.text))]

parse_typedef_name(s) ==
  CASE OutOfBounds(s) -> Panic(s)
    [] ~is(s, "Identifier") -> err_expected(s)
    [] Len(s.scopes) = 0 -> Panic(s)
    [] cur(s).kind.text \notin VisibleTypedefs(s.scopes) -> err_expected(s)
    [] OTHER -> [next(s) EXCEPT !.node = cur(s).kind.text,
                                !.log = Append(@, TypedefNameTaken(s, cur(s).kind.text))]

(***************************************************************************)
(* Initializers, static assertions, attributes                             *)
(***************************************************************************)
parse_braced_initializer(s) ==
  LET open == take(s, "OpenBrace")
      initializers == Rule("initializer_list", open)
      last == take(initializers, "Comma")
      final_comma == maybe(initializers, last)
      close == take(final_comma, "CloseBrace")
  IN CASE open.st # "ok" -> open
       [] OutOfBounds(open) -> Panic(open)
       [] is(open, "CloseBrace") -> Ok(take(open, "CloseBrace"), <<"Empty">>)
       [] initializers.st # "ok" -> initializers
       [] last.st = "panic" -> last
       [] close.st # "ok" -> close
       [] OTHER -> Ok(close, <<"List", initializers.node>>)

parse_initializer(s) ==
  LET expression == Rule("assignment_expression", s)
      braced == Rule("braced_initializer", Else(try_to(s, expression)))
  IN CASE expression.st = "panic" -> expression
       [] expression.st = "ok" -> Ok(expression, <<"Expression", expression.node>>)
       [] braced.st # "ok" -> braced
       [] OTHER -> Ok(braced, <<"Braced", braced.node>>)

parse_initializer_list(s) ==
  LET designators == Rule("designation", s)
      designation == maybe(s, designators)
      initializer == Rule("initializer", designation)
  IN CASE OutOfBounds(s) -> Panic(s)
       [] designators.st = "panic" -> designators
       [] initializer.st # "ok" -> initializer
       [] OTHER -> InitializerListLoop(Ok(initializer, <<"Leaf", designation.node,
                                                         initializer.node>>))

\* the loop of parse_initializer_list, s.node being `left`
InitializerListLoop(s) ==
  LET comma == take(s, "Comma")
      designators == Rule("designation", comma)
      designation == maybe(comma, designators)
      initializer == Rule("initializer", designation)
  IN CASE OutOfBounds(s) -> Panic(s)
       [] ~is(s, "Comma") -> s
       [] designators.st = "panic" -> designators
       [] initializer.st # "ok" -> initializer
       [] OTHER -> InitializerListLoop(Ok(initializer, <<"Rec", s.node, designation.node,
                                                         initializer.node>>))

parse_designation(s) ==
  LET designators == Rule("designator_list", s)
      equal == take(designators, "Equal")
  IN CASE designators.st # "ok" -> designators
       [] equal.st # "ok" -> equal
       [] OTHER -> Ok(equal, <<"Designation", designators.node>>)

parse_designator_list(s) == parse_list(<<"designator", FALSE>>, "Leaf", "Rec", s)

parse_designator(s) ==
  LET value == Rule("constant_expression", take(s, "OpenBracket"))
      close == take(value, "CloseBracket")
      name == take_identifier(take(s, "Period"))
  IN CASE OutOfBounds(s) -> Panic(s)
       [] is(s, "OpenBracket") ->
            CASE value.st # "ok" -> value
              [] close.st # "ok" -> close
              [] OTHER -> Ok(close, <<"InBrackets", value.node>>)
       [] name.st # "ok" -> name
       [] OTHER -> Ok(name, <<"AfterPeriod", name.node>>)

\* the message is read from the token after the comma, which is not passed
parse_static_assert_declaration(s) ==
  LET open == take(take(s, "StaticAssert"), "OpenParenthesis")
      condition == Rule("constant_expression", open)
      comma == take(condition, "Comma")
      message == CASE ~is(condition, "Comma") -> Ok(condition, None)
                   [] OutOfBounds(comma) -> Panic(comma)
                   [] ~is(comma, "String") -> err_expected(comma)
                   [] OTHER -> Ok(comma, <<"StringLiteral", cur(comma).kind.text,
                                           cur(comma).kind.encoding>>)
      close == take(message, "CloseParenthesis")
      semicolon == take(close, "Semicolon")
  IN CASE open.st # "ok" -> open
       [] condition.st # "ok" -> condition
       [] OutOfBounds(condition) -> Panic(condition)
       [] semicolon.st # "ok" -> semicolon
       [] OTHER -> Ok(semicolon, <<"StaticAssertDeclaration", condition.node,
                                   message.node>>)

parse_attribute_specifier_sequence(s) ==
  LET left == Rule("attribute_specifier", s)
  IN IF left.st # "ok" THEN left
     ELSE AttributeSpecifierSequenceLoop(Ok(left, <<"AttributeSpecifierSequence",
                                                    None, left.node>>))

\* the loop of parse_attribute_specifier_sequence, s.node being `left`
AttributeSpecifierSequenceLoop(s) ==
  LET right == Rule("attribute_specifier", s)
  IN CASE right.st = "panic" -> right
       [] right.st = "err" -> Ok(Else(try_to(s, right)), s.node)
       [] OTHER -> AttributeSpecifierSequenceLoop(Ok(right, <<"AttributeSpecifierSequence",
                                                              s.node, right.node>>))

parse_attribute_specifier(s) ==
  LET open == take(take(s, "OpenBracket"), "OpenBracket")
      attributes == Rule("attribute_list", open)
      close == take(take(attributes, "CloseBracket"), "CloseBracket")
  IN CASE open.st # "ok" -> open
       [] attributes.st # "ok" -> attributes
       [] close.st # "ok" -> close
       [] OTHER -> Ok(close, <<"AttributeSpecifier", attributes.node>>)

\* todo!()
parse_attribute_list(s) == Panic(s)
(***************************************************************************)
(* Statements                                                              *)
(*                                                                         *)
(* A rule is written as the list of the outcomes of the calls it makes, in *)
(* the order it makes them, each call starting in the state the one before *)
(* it returned, followed by the tests the code makes on them in the code's *)
(* order: the first arm of a CASE whose test holds is the way the rule     *)
(* returns, so an outcome is looked at only if every test before it let    *)
(* the rule go on.                                                         *)
(***************************************************************************)
parse_statement(s) ==
  LET labeled == Rule("labeled_statement", s)
      unlabeled == Rule("unlabeled_statement", Else(try_to(s, labeled)))
  IN CASE labeled.st = "panic" -> labeled
       [] labeled.st = "ok" -> Ok(labeled, <<"Labeled", labeled.node>>)
       [] unlabeled.st # "ok" -> unlabeled
       [] OTHER -> Ok(unlabeled, <<"Unlabeled", unlabeled.node>>)

parse_unlabeled_statement(s) ==
  LET expr_statement == Rule("expression_statement", s)
      retry == Else(try_to(s, expr_statement))
      sequence == Rule("attribute_specifier_sequence", retry)
      attributes == maybe(retry, sequence)
      primary == Rule("primary_block", attributes)
      jump == Rule("jump_statement", Else(try_to(attributes, primary)))
  IN CASE expr_statement.st = "panic" -> expr_statement
       [] expr_statement.st = "ok" ->
            Ok(expr_statement, <<"Expression", expr_statement.node>>)
       [] OutOfBounds(retry) -> Panic(retry)
       [] sequence.st = "panic" -> sequence
       [] primary.st = "panic" -> primary
       [] primary.st = "ok" -> Ok(primary, <<"Primary", attributes.node, primary.node>>)
       [] jump.st # "ok" -> jump
       [] OTHER -> Ok(jump, <<"Jump", attributes.node, jump.node>>)

parse_primary_block(s) ==
  LET compound == Rule("compound_statement", s)
      selection_start == Else(try_to(s, compound))
      selection == Rule("selection_statement", selection_start)
      iteration == Rule("iteration_statement", Else(try_to(selection_start, selection)))
  IN CASE compound.st = "panic" -> compound
       [] compound.st = "ok" -> Ok(compound, <<"Compound", compound.node>>)
       [] selection.st = "panic" -> selection
       [] selection.st = "ok" -> Ok(selection, <<"Selection", selection.node>>)
       [] iteration.st # "ok" -> iteration
       [] OTHER -> Ok(iteration, <<"Iteration", iteration.node>>)

parse_secondary_block(s) ==
  LET inner == Rule("statement", s)
  IN IF inner.st # "ok" THEN inner ELSE Ok(inner, <<"SecondaryBlock", inner.node>>)

parse_label(s) ==
  LET sequence == Rule("attribute_specifier_sequence", s)
      attributes == maybe(s, sequence)
      default_colon == take(take(attributes, "Default"), "Colon")
      value == Rule("constant_expression", take(attributes, "Case"))
      case_colon == take(value, "Colon")
      name == take_identifier(attributes)
      name_colon == take(name, "Colon")
  IN CASE OutOfBounds(s) -> Panic(s)
       [] sequence.st = "panic" -> sequence
       [] OutOfBounds(attributes) -> Panic(attributes)
       [] is(attributes, "Default") ->
            IF default_colon.st # "ok" THEN default_colon
            ELSE Ok(default_colon, <<"Default", attributes.node>>)
       [] is(attributes, "Case") ->
            CASE value.st # "ok" -> value
              [] case_colon.st # "ok" -> case_colon
              [] OTHER -> Ok(case_colon, <<"Case", attributes.node, value.node>>)
       [] OTHER ->
            CASE name.st # "ok" -> name
              [] name_colon.st # "ok" -> name_colon
              [] OTHER -> Ok(name_colon, <<"Named", attributes.node, name.node>>)

parse_labeled_statement(s) ==
  LET label == Rule("label", s)
      statement == Rule("statement", label)
  IN CASE label.st # "ok" -> label
       [] statement.st # "ok" -> statement
       [] OTHER -> Ok(statement, <<"LabeledStatement", label.node, statement.node>>)

\* what parse_compound_statement leaves behind when it returns Ok: where it
\* started and ended, and the scope stack at both points
CompoundParsed(s, r) ==
  [ev |-> "compound_statement",
   index_before |-> s.index, scopes_before |-> s.scopes,
   index_after |-> r.index, scopes_after |-> r.scopes]

\* parse_compound_statement as it would be if the frame were popped after the
\* closing brace was taken: a block that fails at the brace returns one
\* frame deeper than it was entered
parse_compound_statement_leaving_after_brace(s) ==
  LET open == take(s, "OpenBrace")
      entered == enter_scope(open)
      list == Rule("block_item_list", entered)
      items == maybe(entered, list)
      close == take(items, "CloseBrace")
  IN CASE open.st # "ok" -> open
       [] list.st = "panic" -> list
       [] close.st # "ok" -> close
       [] OTHER -> [Ok(leave_scope(close), <<"CompoundStatement", items.node>>)
                      EXCEPT !.log = Append(@, CompoundParsed(s, leave_scope(close)))]

parse_compound_statement(s) ==
  LET open == take(s, "OpenBrace")
      entered == enter_scope(open)
      list == Rule("block_item_list", entered)
      items == maybe(entered, list)
      close == take(leave_scope(items), "CloseBrace")
  IN CASE open.st # "ok" -> open
       [] list.st = "panic" -> list
       [] close.st # "ok" -> close
       [] OTHER -> [Ok(close, <<"CompoundStatement", items.node>>)
                      EXCEPT !.log = Append(@, CompoundParsed(s, close))]

parse_block_item_list(s) == parse_list(<<"block_item", FALSE>>, "Leaf", "Rec", s)

parse_block_item(s) ==
  LET declaration == Rule("declaration", s)
      statement_start == Else(try_to(s, declaration))
      unlabeled == Rule("unlabeled_statement", statement_start)
      label == Rule("label", Else(try_to(statement_start, unlabeled)))
  IN CASE declaration.st = "panic" -> declaration
       [] declaration.st = "ok" -> Ok(declaration, <<"Declaration", declaration.node>>)
       [] unlabeled.st = "panic" -> unlabeled
       [] unlabeled.st = "ok" -> Ok(unlabeled, <<"Unlabeled", unlabeled.node>>)
       [] label.st # "ok" -> label
       [] OTHER -> Ok(label, <<"Label", label.node>>)

parse_expression_statement(s) ==
  LET attributes == Rule("attribute_specifier_sequence", s)
      attributed == Rule("expression", attributes)
      attributed_end == take(attributed, "Semicolon")
      retry == Else(try_to(s, attributes))
      inner == Rule("expression", retry)
      expression == maybe(retry, inner)
      semicolon == take(expression, "Semicolon")
  IN CASE attributes.st = "panic" -> attributes
       [] attributes.st = "ok" ->
            CASE attributed.st # "ok" -> attributed
              [] attributed_end.st # "ok" -> attributed_end
              [] OTHER -> Ok(attributed_end,
                             <<"WithAttributes", attributes.node, attributed.node>>)
       [] OutOfBounds(retry) -> Panic(retry)
       [] inner.st = "panic" -> inner
       [] semicolon.st # "ok" -> semicolon
       [] OTHER -> Ok(semicolon, <<"WithoutAttributes", expression.node>>)

\* parse_selection_statement as it would be if it never looked for `else`
parse_selection_statement_without_else(s) ==
  LET open == take(take(s, "If"), "OpenParenthesis")
      condition == Rule("expression", open)
      close == take(condition, "CloseParenthesis")
      then_body == Rule("secondary_block", close)
      switch_open == take(take(s, "Switch"), "OpenParenthesis")
      selector == Rule("expression", switch_open)
      switch_close == take(selector, "CloseParenthesis")
      body == Rule("secondary_block", switch_close)
  IN CASE OutOfBounds(s) -> Panic(s)
       [] is(s, "If") ->
            CASE open.st # "ok" -> open
              [] condition.st # "ok" -> condition
              [] close.st # "ok" -> close
              [] then_body.st # "ok" -> then_body
              [] OTHER -> Ok(then_body, <<"If", condition.node, then_body.node>>)
       [] is(s, "Switch") ->
            CASE switch_open.st # "ok" -> switch_open
              [] selector.st # "ok" -> selector
              [] switch_close.st # "ok" -> switch_close
              [] body.st # "ok" -> body
              [] OTHER -> Ok(body, <<"Switch", selector.node, body.node>>)
       [] OTHER -> err_expected(s)

parse_selection_statement(s) ==
  LET open == take(take(s, "If"), "OpenParenthesis")
      condition == Rule("expression", open)
      close == take(condition, "CloseParenthesis")
      then_body == Rule("secondary_block", close)
      else_body == Rule("secondary_block", take(then_body, "Else"))
      switch_open == take(take(s, "Switch"), "OpenParenthesis")
      selector == Rule("expression", switch_open)
      switch_close == take(selector, "CloseParenthesis")
      body == Rule("secondary_block", switch_close)
  IN CASE OutOfBounds(s) -> Panic(s)
       [] is(s, "If") ->
            CASE open.st # "ok" -> open
              [] condition.st # "ok" -> condition
              [] close.st # "ok" -> close
              [] then_body.st # "ok" -> then_body
              [] OutOfBounds(then_body) -> Panic(then_body)
              [] ~is(then_body, "Else") ->
                   Ok(then_body, <<"If", condition.node, then_body.node>>)
              [] else_body.st # "ok" -> else_body
              [] OTHER -> Ok(else_body, <<"IfElse", condition.node,
                                          then_body.node, else_body.node>>)
       [] is(s, "Switch") ->
            CASE switch_open.st # "ok" -> switch_open
              [] selector.st # "ok" -> selector
              [] switch_close.st # "ok" -> switch_close
              [] body.st # "ok" -> body
              [] OTHER -> Ok(body, <<"Switch", selector.node, body.node>>)
       [] OTHER -> err_expected(s)
parse_iteration_statement(s) ==
  LET while_open == take(take(s, "While"), "OpenParenthesis")
      while_condition == Rule("expression", while_open)
      while_close == take(while_condition, "CloseParenthesis")
      while_body == Rule("secondary_block", while_close)
      do_body == Rule("secondary_block", take(s, "Do"))
      do_open == take(take(do_body, "While"), "OpenParenthesis")
      do_condition == Rule("expression", do_open)
      do_close == take(do_condition, "CloseParenthesis")
      do_semicolon == take(do_close, "Semicolon")
      for_open == take(take(s, "For"), "OpenParenthesis")
      declaration == Rule("declaration", for_open)
      retry == Else(try_to(for_open, declaration))
      expression == Rule("expression", retry)
      initializer == maybe(retry, expression)
      semicolon_0 == take(initializer, "Semicolon")
  IN CASE OutOfBounds(s) -> Panic(s)
       [] is(s, "While") ->
            CASE while_open.st # "ok" -> while_open
              [] while_condition.st # "ok" -> while_condition
              [] while_close.st # "ok" -> while_close
              [] while_body.st # "ok" -> while_body
              [] OTHER -> Ok(while_body, <<"While", while_condition.node, while_body.node>>)
       [] is(s, "Do") ->
            CASE do_body.st # "ok" -> do_body
              [] do_open.st # "ok" -> do_open
              [] do_condition.st # "ok" -> do_condition
              [] do_close.st # "ok" -> do_close
              [] do_semicolon.st # "ok" -> do_semicolon
              [] OTHER -> Ok(do_semicolon, <<"DoWhile", do_body.node, do_condition.node>>)
       [] is(s, "For") ->
            CASE for_open.st # "ok" -> for_open
              [] declaration.st = "panic" -> declaration
              [] declaration.st = "ok" ->
                   ForEnd(declaration, "ForDeclaration", declaration.node)
              [] expression.st = "panic" -> expression
              [] semicolon_0.st # "ok" -> semicolon_0
              [] OTHER -> ForEnd(semicolon_0, "For", initializer.node)
       [] OTHER -> err_expected(s)

\* what both forms of `for` do after the initializer: condition, counter,
\* then the one semicolon, the parenthesis and the body
ForEnd(s, variant, initializer) ==
  LET first == Rule("expression", s)
      condition == maybe(s, first)
      second == Rule("expression", condition)
      counter == maybe(condition, second)
      semicolon_1 == take(counter, "Semicolon")
      close == take(semicolon_1, "CloseParenthesis")
      body == Rule("secondary_block", close)
  IN CASE first.st = "panic" -> first
       [] second.st = "panic" -> second
       [] close.st # "ok" -> close
       [] body.st # "ok" -> body
       [] OTHER -> Ok(body, <<variant, initializer, condition.node, counter.node,
                              body.node>>)

parse_jump_statement(s) ==
  LET target == take_identifier(take(s, "Goto"))
      goto_semicolon == take(target, "Semicolon")
      continue_semicolon == take(take(s, "Continue"), "Semicolon")
      break_semicolon == take(take(s, "Break"), "Semicolon")
      expression == Rule("expression", take(s, "Return"))
      value == maybe(take(s, "Return"), expression)
      return_semicolon == take(value, "Semicolon")
  IN CASE OutOfBounds(s) -> Panic(s)
       [] is(s, "Goto") ->
            IF goto_semicolon.st # "ok" THEN goto_semicolon
            ELSE Ok(goto_semicolon, <<"Goto", target.node>>)
       [] is(s, "Continue") ->
            IF continue_semicolon.st # "ok" THEN continue_semicolon
            ELSE Ok(continue_semicolon, <<"Continue">>)
       [] is(s, "Break") ->
            IF break_semicolon.st # "ok" THEN break_semicolon
            ELSE Ok(break_semicolon, <<"Break">>)
       [] is(s, "Return") ->
            CASE expression.st = "panic" -> expression
              [] return_semicolon.st # "ok" -> return_semicolon
              [] OTHER -> Ok(return_semicolon, <<"Return", value.node>>)
       [] OTHER -> err_expected(s)

(***************************************************************************)
(* External definitions                                                    *)
(***************************************************************************)
parse_external_declaration(s) ==
  LET function == Rule("function_definition", s)
      declaration == Rule("declaration", Else(try_to(s, function)))
  IN CASE function.st = "panic" -> function
       [] function.st = "ok" -> Ok(function, <<"FunctionDefinition", function.node>>)
       [] declaration.st # "ok" -> declaration
       [] OTHER -> Ok(declaration, <<"Declaration", declaration.node>>)

parse_function_definition(s) ==
  LET sequence == Rule("attribute_specifier_sequence", s)
      attributes == maybe(s, sequence)
      list == Rule("declaration_specifiers", FreshFlag(attributes))
      specifiers == CallerFlag(s, list)
      declarator == RuleWith("declarator", specifiers, FALSE)
      function_body == Rule("function_body", declarator)
  IN CASE OutOfBounds(s) -> Panic(s)
       [] sequence.st = "panic" -> sequence
       [] list.st # "ok" -> list
       [] declarator.st # "ok" -> declarator
       [] function_body.st # "ok" -> function_body
       [] OTHER -> Ok(function_body, <<"FunctionDefinition", attributes.node,
                                       specifiers.node, declarator.node,
                                       function_body.node>>)

parse_function_body(s) ==
  LET compound == Rule("compound_statement", s)
  IN IF compound.st # "ok" THEN compound
     ELSE Ok(compound, <<"FunctionBody", compound.node>>)

\* a call of the rule parse_<name>; the rules that take is_typedef by value
\* are called through RuleWith
Rule(name, s) ==
  CASE name = "primary_expression" -> parse_primary_expression(s)
    [] name = "generic_selection" -> parse_generic_selection(s)
    [] name = "generic_assoc_list" -> parse_generic_assoc_list(s)
    [] name = "generic_association" -> parse_generic_association(s)
    [] name = "postfix_expression" -> parse_postfix_expression(s)
    [] name = "argument_expression_list" -> parse_argument_expression_list(s)
    [] name = "compound_literal" -> parse_compound_literal(s)
    [] name = "storage_class_specifiers" -> parse_storage_class_specifiers(s)
    [] name = "unary_expression" -> parse_unary_expression(s)
    [] name = "sizeof_unary_expression" -> parse_sizeof_unary_expression(s)
    [] name = "cast_expression" -> parse_cast_expression(s)
    [] name = "actual_cast_expression" -> parse_actual_cast_expression(s)
    [] name = "multiplicative_expression" -> parse_multiplicative_expression(s)
    [] name = "additive_expression" -> parse_additive_expression(s)
    [] name = "shift_expression" -> parse_shift_expression(s)
    [] name = "relational_expression" -> parse_relational_expression(s)
    [] name = "equality_expression" -> parse_equality_expression(s)
    [] name = "and_expression" -> parse_and_expression(s)
    [] name = "exclusive_or_expression" -> parse_exclusive_or_expression(s)
    [] name = "inclusive_or_expression" -> parse_inclusive_or_expression(s)
    [] name = "logical_and_expression" -> parse_logical_and_expression(s)
    [] name = "logical_or_expression" -> parse_logical_or_expression(s)
    [] name = "conditional_expression" -> parse_conditional_expression(s)
    [] name = "assignment_expression" -> parse_assignment_expression(s)
    [] name = "actual_assignment_expression" -> parse_actual_assignment_expression(s)
    [] name = "expression" -> parse_expression(s)
    [] name = "constant_expression" -> parse_constant_expression(s)
    [] name = "declaration" -> parse_declaration(s)
    [] name = "declaration_specifiers" -> parse_declaration_specifiers(s)
    [] name = "declaration_specifier" -> parse_declaration_specifier(s)
    [] name = "attribute_declaration" -> parse_attribute_declaration(s)
    [] name = "storage_class_specifier" -> parse_storage_class_specifier(s)
    [] name = "type_specifier" -> parse_type_specifier(s)
    [] name = "struct_or_union_specifier" -> parse_struct_or_union_specifier(s)
    [] name = "with_list" -> parse_with_list(s)
    [] name = "struct_or_union" -> parse_struct_or_union(s)
    [] name = "member_declaration_list" -> parse_member_declaration_list(s)
    [] name = "member_declaration" -> parse_member_declaration(s)
    [] name = "specifier_qualifier_list" -> parse_specifier_qualifier_list(s)
    [] name = "type_specifier_qualifier" -> parse_type_specifier_qualifier(s)
    [] name = "member_declarator_list" -> parse_member_declarator_list(s)
    [] name = "member_declarator" -> parse_member_declarator(s)
    [] name = "with_colon" -> parse_with_colon(s)
    [] name = "enum_specifier" -> parse_enum_specifier(s)
    [] name = "with_members" -> parse_with_members(s)
    [] name = "enumerator_list" -> parse_enumerator_list(s)
    [] name = "enumerator" -> parse_enumerator(s)
    [] name = "enum_type_specifier" -> parse_enum_type_specifier(s)
    [] name = "atomic_type_specifier" -> parse_atomic_type_specifier(s)
    [] name = "typeof_specifier" -> parse_typeof_specifier(s)
    [] name = "typeof_specifier_argument" -> parse_typeof_specifier_argument(s)
    [] name = "type_qualifier" -> parse_type_qualifier(s)
    [] name = "function_specifier" -> parse_function_specifier(s)
    [] name = "alignment_specifier" -> parse_alignment_specifier(s)
    [] name = "array_declarator" -> parse_array_declarator(s)
    [] name = "function_declarator" -> parse_function_declarator(s)
    [] name = "pointer" -> parse_pointer(s)
    [] name = "type_qualifier_list" -> parse_type_qualifier_list(s)
    [] name = "parameter_type_list" -> parse_parameter_type_list(s)
    [] name = "parameter_list" -> parse_parameter_list(s)
    [] name = "parameter_declaration" -> parse_parameter_declaration(s)
    [] name = "type_name" -> parse_type_name(s)
    [] name = "abstract_declarator" -> parse_abstract_declarator(s)
    [] name = "direct_abstract_declarator" -> parse_direct_abstract_declarator(s)
    [] name = "direct_abstract_declarator_leaf" -> parse_direct_abstract_declarator_leaf(s)
    [] name = "array_abstract_declarator" -> parse_array_abstract_declarator(s)
    [] name = "function_abstract_declarator" -> parse_function_abstract_declarator(s)
    [] name = "typedef_name" -> parse_typedef_name(s)
    [] name = "braced_initializer" -> parse_braced_initializer(s)
    [] name = "initializer" -> parse_initializer(s)
    [] name = "initializer_list" -> parse_initializer_list(s)
    [] name = "designation" -> parse_designation(s)
    [] name = "designator_list" -> parse_designator_list(s)
    [] name = "designator" -> parse_designator(s)
    [] name = "static_assert_declaration" -> parse_static_assert_declaration(s)
    [] name = "attribute_specifier_sequence" -> parse_attribute_specifier_sequence(s)
    [] name = "attribute_specifier" -> parse_attribute_specifier(s)
    [] name = "attribute_list" -> parse_attribute_list(s)
    [] name = "statement" -> parse_statement(s)
    [] name = "unlabeled_statement" -> parse_unlabeled_statement(s)
    [] name = "primary_block" -> parse_primary_block(s)
    [] name = "secondary_block" -> parse_secondary_block(s)
    [] name = "label" -> parse_label(s)
    [] name = "labeled_statement" -> parse_labeled_statement(s)
    [] name = "compound_statement" -> parse_compound_statement(s)
    [] name = "block_item_list" -> parse_block_item_list(s)
    [] name = "block_item" -> parse_block_item(s)
    [] name = "expression_statement" -> parse_expression_statement(s)
    [] name = "selection_statement" -> parse_selection_statement(s)
    [] name = "iteration_statement" -> parse_iteration_statement(s)
    [] name = "jump_statement" -> parse_jump_statement(s)
    [] name = "external_declaration" -> parse_external_declaration(s)
    [] name = "function_definition" -> parse_function_definition(s)
    [] name = "function_body" -> parse_function_body(s)
    [] name = "init_declarator_list" -> parse_init_declarator_list(s, s.is_typedef)
    [] name = "init_declarator" -> parse_init_declarator(s, s.is_typedef)
    [] name = "declarator" -> parse_declarator(s, s.is_typedef)
    [] name = "direct_declarator" -> parse_direct_declarator(s, s.is_typedef)
    [] name = "direct_declarator_leaf" -> parse_direct_declarator_leaf(s, s.is_typedef)

(***************************************************************************)
(* Parser::parse, one external declaration per step                        *)
(***************************************************************************)
\* the Parser as a parser state
Self == ParserState(pindex, scopes, log)

\* the fields of the Parser after a step that ended in state r
ParserBecomes(r) ==
  /\ pindex' = r.index
  /\ scopes' = r.scopes
  /\ log' = r.log

\* what the first call of `parse` in parse_list leaves: Leaf(node), or the
\* Err that `?` hands to parse_translation_unit and on to the caller
FirstParsed(r) ==
  /\ ParserBecomes(r)
  /\ parsest' = IF r.st = "ok" THEN "list" ELSE r.st
  /\ root' = IF r.st = "ok" THEN <<"Leaf", r.node>> ELSE root

\* Parser::new runs on the tokens Lexer::lex returned; parse_translation_unit
\* enters the file scope and parse_list parses the first external declaration
ParseFirst ==
  /\ lexst = "done" /\ parsest = "new"
  /\ FirstParsed(Rule("external_declaration", enter_scope(Self)))
  /\ UNCHANGED lexvars

\* the iteration as it would be if an element that was parsed left the
\* cursor where the iteration began
MoreParsed_keeping_cursor(s, r) ==
  CASE r.st = "ok" ->
         /\ ParserBecomes([r EXCEPT !.index = s.index])
         /\ root' = <<"Rec", root, r.node>>
         /\ parsest' = "list"
    [] r.st = "err" ->
         /\ ParserBecomes(leave_scope(try_to(s, r)))
         /\ root' = root
         /\ parsest' = "ok"
    [] OTHER ->
         /\ ParserBecomes(r)
         /\ root' = root
         /\ parsest' = "panic"

\* the iteration as it would be if the attempt were made without try_to:
\* what a failed attempt consumed is not given back
MoreParsed_without_try_to(s, r) ==
  CASE r.st = "ok" ->
         /\ ParserBecomes(r)
         /\ root' = <<"Rec", root, r.node>>
         /\ parsest' = "list"
    [] r.st = "err" ->
         /\ ParserBecomes(leave_scope(r))
         /\ root' = root
         /\ parsest' = "ok"
    [] OTHER ->
         /\ ParserBecomes(r)
         /\ root' = root
         /\ parsest' = "panic"

\* what one iteration of the loop of parse_list leaves, r being the outcome
\* of the attempt: Rec(left, right), or the end of the list, after which
\* parse_translation_unit leaves the file scope and returns the list
MoreParsed(s, r) ==
  CASE r.st = "ok" ->
         /\ ParserBecomes(r)
         /\ root' = <<"Rec", root, r.node>>
         /\ parsest' = "list"
    [] r.st = "err" ->
         /\ ParserBecomes(leave_scope(try_to(s, r)))
         /\ root' = root
         /\ parsest' = "ok"
    [] OTHER ->
         /\ ParserBecomes(r)
         /\ root' = root
         /\ parsest' = "panic"

\* one iteration of the loop of parse_list: one more external declaration
ParseMore ==
  /\ parsest = "list"
  /\ MoreParsed(Self, Rule("external_declaration", Self))
  /\ UNCHANGED lexvars

(***************************************************************************)
(* The programs the front end is run on                                    *)
(*                                                                         *)
(* main reads the preprocessor's output, which ends every line, the last   *)
(* one too, with a newline; the texts below do the same.                   *)
(***************************************************************************)
\* a file-scope typedef that a later function body uses in a declaration
TypedefThenUse == "typedef int T; void f(void) { T x; }\n"

\* the use comes first, the typedef after it
UseThenTypedef == "void f(void) { T x; } typedef int T;\n"

\* typedef and use in the same (file) scope
TypedefSameScope == "typedef int T; T x;\n"

\* a cast to a typedef name of the file scope, inside a function body
CastFileScope == "typedef int T; void f(void) { (T)x; }\n"

\* a cast to a typedef name of the block the cast is in
CastBlockScope == "void f(void) { typedef int T; (T)x; }\n"

\* what looks like a cast, but y names no type
CastNoTypedef == "void f(void) { (y)x; }\n"

\* nested if statements without braces
DanglingElse == "void f(void) { if (a) if (b) x(); else y(); }\n"

\* a block-scope typedef whose declaration then fails, inside the attempt
\* that parse_block_item makes
TypedefThenFail == "void f(void) { typedef int T x; }\n"

\* a line directive, as the preprocessor writes them
WithDirective == "# 1 \"f\"\nint a;\n"

\* a well-formed declaration, then one with two declarators and no comma
MalformedSecond == "int a; int b c;\n"

\* a typedef in a block, between a file-scope typedef and uses of both names
BlockTypedef == "typedef int T; void f(void) { typedef int U; } T x; U y;\n"

\* a typedef with two declarators, one of them parenthesized and with a
\* parameter, then a function definition with a parameter and a local variable
TypedefTwoNames == "typedef int A, (*B)(int p); int g(int q) { int r; }\n"

\* a prototype with a named parameter and `, ...` after it
VariadicPrototype == "int f(int a, ...);\n"

\* an enumerator list with a comma before the closing brace
EnumTrailingComma == "enum E { A, B, } x;\n"

\* two operators of each binary level, and a tighter operator on the right
\* of a looser one
BinaryOperators ==
  "void f(void) { a * b / c; a + b - c; a << b >> c; a < b >= c; a == b != c; "
    \o "a & b & c; a ^ b ^ c; a | b | c; a && b && c; a || b || c; a + b * c; }\n"

\* one statement for each assignment operator, then one without any
AssignmentOperators ==
  "void f(void) { a = b; a *= b; a /= b; a %= b; a += b; a -= b; a <<= b; "
    \o "a >>= b; a &= b; a ^= b; a |= b; a; }\n"

\* a struct specifier with a tag only, and one with a member list
StructReference == "struct S x;\n"

StructDefinition == "struct S { int a; } x;\n"

\* a for statement with a declaration as its initializer, and one with an
\* expression
ForWithDeclaration == "void f(void) { for (int i = 0; i < n; i++) ; }\n"

ForWithExpressions == "void f(void) { for (a = b; a < n; a++) ; }\n"

\* a typedef in the header of a for statement, and a use of the name after
\* the statement
ForTypedef == "void f(void) { for (typedef int T; a;) ; T x; }\n"

\* texts that end in the middle of an expression and of a declarator
TruncatedUnary == "void f(void) { x = -\n"

TruncatedDeclarator == "int f(\n"

\* a static assertion with a message, and one without
StaticAssertMessage == "static_assert(a, \"m\");\n"

StaticAssertPlain == "static_assert(a);\n"

Sources ==
  {TypedefThenUse, UseThenTypedef, TypedefSameScope, CastFileScope,
   CastBlockScope, CastNoTypedef, DanglingElse, TypedefThenFail, WithDirective,
   MalformedSecond, BlockTypedef, TypedefTwoNames, VariadicPrototype,
   EnumTrailingComma, BinaryOperators, AssignmentOperators,
   StructReference, StructDefinition, ForWithDeclaration, ForWithExpressions,
   ForTypedef, TruncatedUnary, TruncatedDeclarator,
   StaticAssertMessage, StaticAssertPlain}

\* main: Lexer::new(&src) and, later, Parser::new(&tokens)
InitOn(texts) ==
  /\ \E text \in texts : LexerNew(text)
  /\ pindex = 0
  /\ scopes = <<>>
  /\ parsest = "new"
  /\ root = <<>>
  /\ log = <<>>

Init == InitOn(Sources)

\* Lexer::lex: one iteration of its loop, or the push of Eof
LexNext == LexNewline \/ LexWhitespace \/ LexDirective \/ LexToken \/ LexEof

Next == LexNext \/ ParseFirst \/ ParseMore

\* main: the scanner runs to its end, then the parser
Spec == Init /\ [][Next]_vars

\* the parser has a step to take: ParseFirst and ParseMore have no other
\* guard, define every primed variable for whatever the rule returns, and
\* change parsest or root, so this is ENABLED <<ParseFirst \/ ParseMore>>_vars
ParserCanStep == lexst = "done" /\ parsest \in {"new", "list"}

\* the same run with a parser that does not stop while it has a step to
\* take (main calls parse and waits for nothing): weak fairness of the steps
\* of the parser, WF_vars(ParseFirst \/ ParseMore), with ENABLED written out
FairSpec ==
  Spec /\ ([]<>~ParserCanStep \/ []<><<ParseFirst \/ ParseMore>>_vars)

(***************************************************************************)
(* The scanner alone, on every short text over a small alphabet, on every  *)
(* pattern of TOKEN_MAP as a text of its own, and on a few longer texts    *)
(***************************************************************************)
MaxLen == 3

LexAlphabet == {"<", "=", ">", "-", " ", "1", "u", "x"}

\* the texts of at most n characters over LexAlphabet
RECURSIVE Texts(_)
Texts(n) ==
  IF n = 0 THEN {""}
  ELSE LET shorter == Texts(n - 1)
       IN shorter \cup {t \o c : t \in shorter, c \in LexAlphabet}

TablePatterns == {TOKEN_MAP[m][1] : m \in 1..Len(TOKEN_MAP)}

LexExamples ==
  {"<<= <<", "123ull", "0x1Fu", "123ull\n", "0x1Fu\n", "\"ab", "x1 = 0x1Fu;\n",
   "# 1 \"f\"\nx \n", "# 1 \"f\"", "@ x\n",
   "# 5 \"foo.c\"\nx;\ny;\n", "# 5 \"foo.c\" 1 2\nx;\n",
   "121;\n", "ab1;\n", "0x1F 0b10 017 19 0;\n",
   "integer \n", "_x \n", "xy \n",
   "\"ab\";\n", "\"a\\\"b\";\n", "u8\"ab\";\n", "u\"ab\";\n", "U\"ab\";\n", "L\"ab\";\n"}

LexSources == Texts(MaxLen) \cup TablePatterns \cup LexExamples

\* Lexer::new(&src).lex() on one of these texts
LexSpec == InitOn(LexSources) /\ [][LexNext]_vars

(***************************************************************************)
(* The file table alone: Files::new(), then calls of get_file_id with      *)
(* names in every order, repeated or not                                   *)
(***************************************************************************)
MaxCalls == 4

FileNames == {"a.c", "b.h", "c.h", "<EOF>"}

\* Files::new(); no lexer and no parser run
FilesNew ==
  /\ files = <<>>
  /\ log = <<>>
  /\ src = ""
  /\ index = 0
  /\ at = At(0, 1, 1)
  /\ tokens = <<>>
  /\ lexst = "none"
  /\ pindex = 0
  /\ scopes = <<>>
  /\ parsest = "new"
  /\ root = <<>>

\* one call files.get_file_id(name); the log keeps the argument and the result
GetFileId(name) ==
  /\ Len(log) < MaxCalls
  /\ files' = get_file_id(files, name).files
  /\ log' = Append(log, [ev |-> "get_file_id", name |-> name,
                         id |-> get_file_id(files, name).id])
  /\ UNCHANGED <<src, index, at, tokens, lexst, pindex, scopes, parsest, root>>

FilesNext == \E name \in FileNames : GetFileId(name)

FilesSpec == FilesNew /\ [][FilesNext]_vars

(***************************************************************************)
(* Vocabulary of the properties                                            *)
(***************************************************************************)
\* the scanner has stopped, one way or another
LexerDone == lexst # "run"

\* the parser has stopped, one way or another
ParserDone == parsest \in {"ok", "err", "panic"}

\* the tags of a token vector
Kinds(ts) == [k \in 1..Len(ts) |-> ts[k].kind.tag]

\* the positions of the log that hold an event of one kind
Events(ev) == {k \in 1..Len(log) : log[k].ev = ev}

\* the tag of token i (0-based), "" past the end
TagAt(i) == IF i < Len(tokens) THEN tokens[i + 1].kind.tag ELSE ""

\* the tokens from i on are `(`, an identifier, `)` and an identifier
ParenthesizedNameAt(i) ==
  /\ TagAt(i) = "OpenParenthesis"
  /\ TagAt(i + 1) = "Identifier"
  /\ TagAt(i + 2) = "CloseParenthesis"
  /\ TagAt(i + 3) = "Identifier"

\* the name is a typedef name of some frame of the scope stack sc
InSomeFrame(name, sc) == \E d \in 1..Len(sc) : name \in sc[d]

\* the subtree of t that the path of child positions leads to
RECURSIVE Walk(_, _)
Walk(t, path) == IF path = <<>> THEN t ELSE Walk(t[Head(path)], Tail(path))

\* leaf under the chain of one-child nodes named by tags
RECURSIVE Wrapped(_, _)
Wrapped(tags, leaf) ==
  IF tags = <<>> THEN leaf ELSE <<Head(tags), Wrapped(Tail(tags), leaf)>>

\* the nodes between an expression and a postfix expression that has no operator
ExpressionLevels ==
  <<"Assign", "Conditional", "LogicalOr", "LogicalAnd", "InclusiveOr",
    "ExclusiveOr", "And", "Equality", "Relational", "Shift", "Additive",
    "Multiplicative", "Cast", "Unary", "Postfix">>

NameNode(n) == <<"Primary", <<"Identifier", n>>>>

NameExpression(n) == Wrapped(ExpressionLevels, NameNode(n))

CallExpression(n) == Wrapped(ExpressionLevels, <<"Call", NameNode(n), None>>)

ExpressionBlock(e) ==
  <<"SecondaryBlock", <<"Unlabeled", <<"Expression", <<"WithoutAttributes", e>>>>>>>>

(***************************************************************************)
(* C1  try_to and maybe put the cursor and the scope stack back            *)
(***************************************************************************)
\* C1: whenever try_to (and with it maybe) ends in failure, the cursor index
\* and the typedef scope stack, frame by frame, are what they were right
\* before the attempt, whatever the attempt consumed and registered.
C1_TryRestores ==
  \A k \in Events("try_failed") :
    /\ log[k].index_after = log[k].index_before
    /\ log[k].scopes_after = log[k].scopes_before

\* a failed attempt that had consumed three tokens and registered a typedef
\* name (inside the attempts nested in it) before it failed
C1_Witness ==
  \E k \in Events("try_failed") :
    /\ log[k].index_reached >= log[k].index_before + 3
    /\ log[k].scopes_reached # log[k].scopes_before
    /\ \E j \in Events("typedef_registered") :
         /\ j < k
         /\ log[j].index = log[k].index_reached
    /\ \E j \in Events("try_failed") :
         /\ j < k
         /\ log[j].index_before > log[k].index_before

(***************************************************************************)
(* C2  typedef names of enclosing scopes                                   *)
(***************************************************************************)
\* C2: identifier classification looks through the scope stack from the
\* innermost frame to the outermost: in TypedefThenUse the T of the function
\* body is taken as a typedef name (parse_typedef_name succeeds on it, two
\* frames deep) and the whole text parses.
C2_OuterTypedefSeen ==
  (src = TypedefThenUse /\ ParserDone) =>
    /\ parsest = "ok"
    /\ \E k \in Events("typedef_name") :
         /\ log[k].name = "T"
         /\ log[k].index = 10
         /\ log[k].depth = 2

(***************************************************************************)
(* C3  no hoisting of typedef names                                        *)
(***************************************************************************)
\* C3: an identifier is taken as a typedef name only if a typedef declarator
\* for it was parsed earlier in the token stream; in UseThenTypedef the item
\* `T x;` is never parsed as a declaration with typedef name T.
C3_NoHoisting ==
  /\ \A k \in Events("typedef_name") :
       \E j \in Events("typedef_registered") :
         /\ j < k
         /\ log[j].name = log[k].name
         /\ log[j].index <= log[k].index
  /\ src = UseThenTypedef => Events("typedef_name") = {}

\* the attempt to parse `T x;` of UseThenTypedef as a declaration was made
\* and failed on T, and the parser has stopped
C3_Witness ==
  /\ src = UseThenTypedef
  /\ ParserDone
  /\ \E k \in Events("try_failed") :
       /\ log[k].index_before = 6
       /\ log[k].index_reached = 6

(***************************************************************************)
(* C4  a cast to a typedef name                                            *)
(***************************************************************************)
\* the node of `( T ) x`
TypeNameT ==
  <<"TypeName", <<"Leaf", <<"TypeSpecifier", <<"TypedefName", "T">>>>, None>>, None>>

CastToT == <<"Cast", TypeNameT, <<"Unary", <<"Postfix", NameNode("x")>>>>>>

\* C4: with T registered by a prior `typedef int T;`, parsing `( T ) x`
\* yields a CastExpression::Cast whose type name is T and whose operand is
\* x, and consumes the four tokens.
C4_CastToTypedef ==
  (src \in {CastFileScope, CastBlockScope} /\ ParserDone) =>
    \E k \in Events("cast_expression") :
      /\ ParenthesizedNameAt(log[k].index_before)
      /\ log[k].index_after = log[k].index_before + 4
      /\ log[k].node[1] = "Cast"
      /\ log[k].node = CastToT

(***************************************************************************)
(* C5  what looks like a cast but names no type                            *)
(***************************************************************************)
\* parse_cast_expression returned Ok at event k, having started on `( y ) x`
\* with y a typedef name of no frame
NoTypeInParentheses(k) ==
  /\ ParenthesizedNameAt(log[k].index_before)
  /\ ~InSomeFrame(tokens[log[k].index_before + 2].kind.text, log[k].scopes)

\* C5 as stated: when y is not a typedef name, parse_cast_expression does not
\* return success on `( y ) x` having consumed only `( y )`.
C5_NoSuccessOnParenthesized ==
  \A k \in Events("cast_expression") :
    NoTypeInParentheses(k) => log[k].index_after # log[k].index_before + 3

\* C5: when y is not a typedef name, `( y ) x` fails as a cast (no Cast node
\* is built), parse_cast_expression returns the parenthesized primary
\* expression `(y)` as CastExpression::Unary with the cursor left on x, and
\* the text is rejected by the statement around it: CastNoTypedef does not
\* parse.
C5_RejectedOneLevelUp ==
  /\ \A k \in Events("cast_expression") :
       NoTypeInParentheses(k) =>
         /\ log[k].index_after = log[k].index_before + 3
         /\ log[k].node =
              <<"Unary", <<"Postfix", <<"Primary", <<"Parenthesized",
                NameExpression(tokens[log[k].index_before + 2].kind.text)>>>>>>>>
  /\ (src = CastNoTypedef /\ ParserDone) =>
       /\ parsest = "err"
       /\ root = <<>>
       /\ \E k \in Events("cast_expression") :
            log[k].index_before = 6 /\ NoTypeInParentheses(k)
       /\ \A k \in Events("cast_expression") : log[k].node[1] # "Cast"

\* the cast attempt on `(y)x` failed on y, and the parser has stopped
C5_Witness ==
  /\ src = CastNoTypedef
  /\ ParserDone
  /\ \E k \in Events("try_failed") :
       log[k].index_before = 6 /\ log[k].index_reached = 7
  /\ \E k \in Events("cast_expression") :
       log[k].index_before = 6 /\ log[k].index_after = 9

(***************************************************************************)
(* C6  the dangling else                                                   *)
(***************************************************************************)
\* the selection statement that is the first block item of the body of the
\* first function definition of the translation unit
FirstSelection == Walk(root, <<2, 2, 5, 2, 2, 2, 2, 3, 2>>)

\* `if (b) x(); else y();`
InnerIfElse ==
  <<"IfElse", NameExpression("b"),
    ExpressionBlock(CallExpression("x")), ExpressionBlock(CallExpression("y"))>>

\* `if (a)` with the statement above as its body
OuterIf ==
  <<"If", NameExpression("a"),
    <<"SecondaryBlock", <<"Unlabeled", <<"Primary", None, <<"Selection", InnerIfElse>>>>>>>>>>

\* C6: in nested if statements without braces the else goes to the nearest
\* if: DanglingElse parses, and its statement is a SelectionStatement::If
\* whose body is the SelectionStatement::IfElse that carries the else.
C6_ElseBindsInner ==
  (src = DanglingElse /\ ParserDone) =>
    /\ parsest = "ok"
    /\ pindex = Len(tokens) - 1
    /\ FirstSelection[1] = "If"
    /\ FirstSelection = OuterIf

\* DanglingElse has been parsed to its end
C6_Witness ==
  /\ src = DanglingElse
  /\ parsest = "ok"
  /\ TagAt(pindex) = "Eof"
  /\ root # <<>>

(***************************************************************************)
(* C7  the scanner on every text                                           *)
(***************************************************************************)
\* C7: the scanner never fails: on every text, also one that does not end in
\* white space, Lexer::lex returns its tokens without aborting (it neither
\* panics nor runs forever), and a character that starts no token becomes
\* an Error token.
C7_ScannerNeverFails ==
  /\ lexst \in {"run", "done"}
  /\ (src = "@ x\n" /\ LexerDone) => Kinds(tokens) = <<"Error", "Identifier", "Eof">>

(***************************************************************************)
(* C8  every pattern of the table on its own                               *)
(***************************************************************************)
\* C8: for every entry (pattern, kind) of TOKEN_MAP, scanning the pattern as
\* the whole text yields exactly one token before Eof, of that kind, and no
\* Error token.
C8_PatternAlone ==
  \A m \in 1..Len(TOKEN_MAP) :
    src = TOKEN_MAP[m][1] =>
      /\ Len(tokens) >= 1 => tokens[1].kind = Kind(TOKEN_MAP[m][2])
      /\ LexerDone =>
           /\ lexst = "done"
           /\ Kinds(tokens) = <<TOKEN_MAP[m][2], "Eof">>

(***************************************************************************)
(* C9  the longest operator wins                                           *)
(***************************************************************************)
\* the entries of TOKEN_MAP that are operators and punctuators, not keywords
OperatorEntries ==
  {m \in 1..Len(TOKEN_MAP) : CharAt(TOKEN_MAP[m][1], 0) \notin AsciiAlphabetic \cup {"_"}}

\* p is a proper prefix of q
ProperPrefix(p, q) == Len(p) < Len(q) /\ SubSeq(q, 1, Len(p)) = p

\* no operator stands in the table before an operator it is a proper prefix of
OperatorsOrdered ==
  \A m, n \in OperatorEntries :
    m < n => ~ProperPrefix(TOKEN_MAP[m][1], TOKEN_MAP[n][1])

\* the operator entries whose pattern is at position i of s
OperatorsAt(s, i) == {m \in OperatorEntries : matches(s, i, TOKEN_MAP[m][1])}

\* the one with the longest pattern among them
LongestOperatorAt(s, i) ==
  CHOOSE m \in OperatorsAt(s, i) :
    \A n \in OperatorsAt(s, i) : Len(TOKEN_MAP[n][1]) <= Len(TOKEN_MAP[m][1])

\* a step that pushes a token while an operator is at the cursor pushes the
\* longest operator there and moves the cursor past it
LongestOperatorPushed ==
  (Len(tokens') = Len(tokens) + 1 /\ lexst' = "run" /\ OperatorsAt(src, index) # {}) =>
    /\ index' = index + Len(TOKEN_MAP[LongestOperatorAt(src, index)][1])
    /\ tokens'[Len(tokens')].kind = Kind(TOKEN_MAP[LongestOperatorAt(src, index)][2])

\* C9: the table is ordered so that no operator is shadowed by an operator
\* that is a proper prefix of it, so the scanner emits the longest operator
\* at the cursor; `<<= <<` gives DoubleLessEqual, DoubleLess and then Eof.
C9_LongestOperator ==
  /\ [](OperatorsOrdered)
  /\ []((src = "<<= <<" /\ LexerDone) =>
          /\ lexst = "done"
          /\ Kinds(tokens) = <<"DoubleLessEqual", "DoubleLess", "Eof">>)
  /\ [][LongestOperatorPushed]_vars

\* `<<= <<` has been scanned to its end: two operators, the first of three
\* characters with two shorter operators as its prefixes
C9_Witness ==
  /\ src = "<<= <<"
  /\ lexst = "done"
  /\ Len(tokens) = 3
  /\ tokens[1].at.column = 1
  /\ tokens[2].at.column = 5

(***************************************************************************)
(* C10  integer suffixes                                                   *)
(***************************************************************************)
SuffixExamples ==
  {[text |-> "123ull", source |-> "123", format |-> "Decimal",
    suffix |-> "LongLongUnsigned"],
   [text |-> "0x1Fu", source |-> "1F", format |-> "Hexadecimal",
    suffix |-> "Unsigned"]}

\* C10: an integer literal directly followed by a suffix yields one Integer
\* token whose suffix tag classifies the whole suffix, and no suffix
\* character is left over: `123ull` is Decimal with LongLongUnsigned,
\* `0x1Fu` is Hexadecimal with Unsigned.
C10_SuffixClassified ==
  \A e \in SuffixExamples :
    src = e.text =>
      /\ Len(tokens) >= 1 => tokens[1].kind = IntegerKind(e.source, e.format, e.suffix)
      /\ LexerDone =>
           /\ lexst = "done"
           /\ Kinds(tokens) = <<"Integer", "Eof">>

(***************************************************************************)
(* C11  line directives                                                    *)
(***************************************************************************)
\* the text of s from position i to position j is one directive line
\* `# N "F"`, trailing text and the newline: N is s[i + 2 .. a), F is
\* s[a + 2 .. b), and the newline is the character before j
DirectiveLine(s, i, a, b, j) ==
  /\ i + 2 < a /\ a + 2 <= b /\ b < j /\ j <= Len(s)
  /\ a - (i + 2) <= U32SafeDigits
  /\ matches(s, i, "# ")
  /\ \A k \in (i + 2)..(a - 1) : CharAt(s, k) \in Digits
  /\ matches(s, a, " \"")
  /\ \A k \in (a + 2)..(b - 1) : CharAt(s, k) # "\""
  /\ CharAt(s, b) = "\""
  /\ \A k \in (b + 1)..(j - 2) : CharAt(s, k) # "\n"
  /\ CharAt(s, j - 1) = "\n"

\* a step at a directive line takes the whole line, pushes no token and sets
\* the location to file F, line N, column 1
DirectiveResets ==
  \A a, b, j \in 0..Len(src) :
    (lexst = "run" /\ DirectiveLine(src, index, a, b, j)) =>
      /\ lexst' = "run"
      /\ index' = j
      /\ tokens' = tokens
      /\ files'[at'.file + 1] = SubSeq(src, a + 3, b)
      /\ at'.line = DecimalValue(SubSeq(src, index + 3, a))
      /\ at'.column = 1

\* a step at a newline adds one to the line and keeps the file
NewlineAddsOne ==
  (lexst = "run" /\ matches(src, index, "\n")) =>
    /\ at'.line = at.line + 1
    /\ at'.file = at.file
    /\ tokens' = tokens

\* a token that is pushed reports the location the scanner was at
TokenReportsLocation ==
  (Len(tokens') = Len(tokens) + 1 /\ lexst' = "run") => tokens'[Len(tokens')].at = at

\* the file that a token's location names
FileOf(t) == files[t.at.file + 1]

\* C11: a directive line `# N "F"`, with or without trailing text before the
\* newline, gives no token and sets the location to file F, line N, column
\* 1; the first token of the next line reports F and N, and every later
\* newline adds one to the line.
C11_DirectiveResets ==
  /\ [][DirectiveResets /\ NewlineAddsOne /\ TokenReportsLocation]_vars
  /\ []((src = "# 5 \"foo.c\"\nx;\ny;\n" /\ LexerDone) =>
          /\ lexst = "done"
          /\ Kinds(tokens) = <<"Identifier", "Semicolon", "Identifier", "Semicolon", "Eof">>
          /\ FileOf(tokens[1]) = "foo.c" /\ tokens[1].at.line = 5 /\ tokens[1].at.column = 1
          /\ FileOf(tokens[3]) = "foo.c" /\ tokens[3].at.line = 6 /\ tokens[3].at.column = 1)
  /\ []((src = "# 5 \"foo.c\" 1 2\nx;\n" /\ LexerDone) =>
          /\ lexst = "done"
          /\ Kinds(tokens) = <<"Identifier", "Semicolon", "Eof">>
          /\ FileOf(tokens[1]) = "foo.c" /\ tokens[1].at.line = 5)

\* the directive of `# 5 "foo.c"` has been taken, and the two lines after it
\* have been scanned
C11_Witness ==
  /\ src = "# 5 \"foo.c\"\nx;\ny;\n"
  /\ lexst = "done"
  /\ Len(tokens) = 5
  /\ tokens[3].at.line = 6
  /\ FileOf(tokens[3]) = "foo.c"

(***************************************************************************)
(* C12  the translation unit and the end of the token stream               *)
(***************************************************************************)
\* C12: when Parser::parse returns a TranslationUnit, the cursor stands on
\* the Eof token, so no token before Eof is left unparsed; a malformed
\* external declaration after a well-formed one makes parse fail.
C12_WholeStream ==
  /\ parsest = "ok" => TagAt(pindex) = "Eof"
  /\ (src = MalformedSecond /\ ParserDone) => parsest # "ok"

(***************************************************************************)
(* C13  the Eof token                                                      *)
(***************************************************************************)
\* C13: the token vector that Lexer::lex returns ends with an Eof token, Eof
\* occurs nowhere else in it (and is pushed by nothing but the end of lex),
\* and the location of Eof names the file "<EOF>" of the returned file table.
C13_EofLast ==
  /\ lexst # "done" => \A k \in 1..Len(tokens) : tokens[k].kind.tag # "Eof"
  /\ lexst = "done" =>
       /\ Len(tokens) >= 1
       /\ tokens[Len(tokens)].kind = Kind("Eof")
       /\ \A k \in 1..(Len(tokens) - 1) : tokens[k].kind.tag # "Eof"
       /\ tokens[Len(tokens)].at.file < Len(files)
       /\ FileOf(tokens[Len(tokens)]) = "<EOF>"

\* lex has returned for a text with a directive and four tokens
C13_Witness ==
  /\ src = "# 5 \"foo.c\"\nx;\ny;\n"
  /\ lexst = "done"
  /\ Kinds(tokens) = <<"Identifier", "Semicolon", "Identifier", "Semicolon", "Eof">>
  /\ files = <<DummyFile, "foo.c", "<EOF>">>

(***************************************************************************)
(* C14  the scope frame of a compound statement                            *)
(***************************************************************************)
\* event r of the log lies between the braces of the compound statement c
\* (a registration is logged with the cursor behind the name)
InsideBlock(r, c) ==
  /\ log[c].index_before < log[r].index
  /\ log[r].index < log[c].index_after

\* the frame that the registration r went into is still on the stack when
\* the token of event k is read: no compound statement that holds r has
\* ended at or before that token
FrameAlive(r, k) ==
  ~\E c \in Events("compound_statement") :
     InsideBlock(r, c) /\ log[c].index_after <= log[k].index

\* C14: parse_compound_statement pushes a fresh frame and pops it: the scope
\* stack after the block is the stack before it, frame by frame; a name
\* registered between the braces goes into a frame above those; and a token
\* is taken for a typedef name only if the name was registered before it in
\* a frame that has not been popped since.  In BlockTypedef, U is registered
\* in the block and not taken for a type name after it, and T, of the frame
\* around the block, still is.
C14_BlockScope ==
  /\ \A c \in Events("compound_statement") :
       /\ log[c].scopes_after = log[c].scopes_before
       /\ \A r \in Events("typedef_registered") :
            InsideBlock(r, c) => log[r].depth = Len(log[c].scopes_before) + 1
  /\ \A k \in Events("typedef_name") :
       \E r \in Events("typedef_registered") :
         /\ log[r].name = log[k].name
         /\ log[r].index <= log[k].index
         /\ FrameAlive(r, k)
  /\ (src = BlockTypedef /\ ParserDone) =>
       /\ \E r \in Events("typedef_registered") : log[r].name = "U" /\ log[r].index = 13
       /\ \A k \in Events("typedef_name") : log[k].name = "T" /\ log[k].index = 15
       /\ \E k \in Events("typedef_name") : log[k].index = 15
       /\ pindex = 18

\* BlockTypedef has been parsed: U was registered in the frame of the block,
\* the block has ended, and T was taken for a type name after it
C14_Witness ==
  /\ src = BlockTypedef
  /\ ParserDone
  /\ \E r \in Events("typedef_registered"), c \in Events("compound_statement") :
       log[r].name = "U" /\ InsideBlock(r, c) /\ log[r].depth = 2
  /\ \E k \in Events("typedef_name") : log[k].name = "T" /\ log[k].index = 15

(***************************************************************************)
(* C15  the names a typedef declaration registers                          *)
(***************************************************************************)
\* the names that were registered in frame d of the scope stack
RegisteredAt(d) ==
  {log[r].name : r \in {e \in Events("typedef_registered") : log[e].depth = d}}

\* C15: a committed declaration with `typedef` among its specifiers inserts
\* every name its declarators bind, a parenthesized one too, into the
\* innermost frame and into no other; a declaration without `typedef`, a
\* parameter declaration and a function definition insert nothing.  Every
\* name in a frame was registered in that frame; after `typedef int A,
\* (*B)(int p);` the file frame holds A and B and nothing else, and the
\* function definition after it, with its parameter and its local variable,
\* adds nothing; in BlockTypedef, U goes into the frame of the block and
\* the file frame holds T alone.
C15_TypedefNames ==
  /\ \A d \in 1..Len(scopes) : scopes[d] \subseteq RegisteredAt(d)
  /\ \A r \in Events("typedef_registered") :
       log[r].index >= 1 /\ tokens[log[r].index].kind = IdentifierKind(log[r].name)
  /\ (src = TypedefTwoNames /\ parsest \in {"list", "ok"}) =>
       /\ RegisteredAt(1) = {"A", "B"}
       /\ Events("typedef_registered") = {r \in Events("typedef_registered") : log[r].depth = 1}
       /\ parsest = "list" => scopes = <<{"A", "B"}>>
       /\ parsest = "ok" => TagAt(pindex) = "Eof" /\ root[1] = "Rec"
  /\ (src = BlockTypedef /\ parsest \in {"list", "ok"}) =>
       /\ RegisteredAt(1) = {"T"}
       /\ Len(root) = 3 => RegisteredAt(2) = {"U"}
       /\ parsest = "list" => scopes = <<{"T"}>>

\* both declarations of TypedefTwoNames are committed, and the file frame
\* holds the two names of the typedef
C15_Witness ==
  /\ src = TypedefTwoNames
  /\ parsest = "list"
  /\ root[1] = "Rec"
  /\ TagAt(pindex) = "Eof"
  /\ scopes = <<{"A", "B"}>>

(***************************************************************************)
(* C16  parse_list                                                         *)
(***************************************************************************)
\* the elements of a left-nested list, in source order
RECURSIVE Elements(_)
Elements(l) ==
  IF l[1] = "Leaf" THEN <<l[2]>> ELSE Append(Elements(l[2]), l[3])

\* the kinds of the external declarations of a translation unit
ExternalKinds(l) == [k \in 1..Len(Elements(l)) |-> Elements(l)[k][1]]

\* an iteration of the loop of parse_list over the external declarations:
\* an attempt that matches puts its element on the right of the list, one
\* that fails ends the list without error, gives the cursor back and leaves
\* the list as it was
ListStep ==
  parsest = "list" =>
    \/ /\ parsest' = "list"
       /\ pindex' > pindex
       /\ root'[1] = "Rec" /\ root'[2] = root
    \/ /\ parsest' = "ok"
       /\ pindex' = pindex
       /\ root' = root
    \/ parsest' = "panic"

\* C16: once the first element has parsed, parse_list ends without error at
\* the first attempt that fails, the cursor is on the first token of the
\* element that did not match, whatever the attempt consumed, and the result
\* is the left-nested list of the matched elements in source order.  On
\* MalformedSecond the attempt at `int b c;` reaches c and the cursor goes
\* back to int; BlockTypedef gives Rec(Rec(Leaf(typedef), function),
\* declaration) with the cursor on U.
C16_ListStops ==
  /\ [][ListStep]_vars
  /\ []((src = MalformedSecond /\ ParserDone) =>
          /\ parsest = "ok"
          /\ pindex = 3
          /\ ExternalKinds(root) = <<"Declaration">>
          /\ \E e \in Events("try_failed") :
               /\ log[e].index_before = 3
               /\ log[e].index_reached = 5
               /\ log[e].index_after = 3)
  /\ []((src = BlockTypedef /\ ParserDone) =>
          /\ parsest = "ok"
          /\ pindex = 18
          /\ root[1] = "Rec" /\ root[2][1] = "Rec" /\ root[2][2][1] = "Leaf"
          /\ ExternalKinds(root) = <<"Declaration", "FunctionDefinition", "Declaration">>)

\* the list of MalformedSecond has ended with one element, after an attempt
\* that had consumed two tokens
C16_Witness ==
  /\ src = MalformedSecond
  /\ parsest = "ok"
  /\ root[1] = "Leaf"
  /\ pindex = 3
  /\ \E e \in Events("try_failed") : log[e].index_before = 3 /\ log[e].index_reached = 5

(***************************************************************************)
(* C17  parse_comma_list                                                   *)
(***************************************************************************)
\* C17: parse_comma_list ends without error when the element after a comma
\* does not parse, and the cursor goes back, so that `, ...` after the last
\* parameter and a comma before the `}` of an enumerator list are left to
\* the caller: `int f(int a, ...);` and `enum E { A, B, } x;` parse as one
\* declaration each, up to Eof.
C17_CommaListStops ==
  (src \in {VariadicPrototype, EnumTrailingComma} /\ ParserDone) =>
    /\ parsest = "ok"
    /\ TagAt(pindex) = "Eof"
    /\ ExternalKinds(root) = <<"Declaration">>

(***************************************************************************)
(* C18  the radix of an integer literal                                    *)
(***************************************************************************)
\* a token of the first line of a text that has no directive before it: its
\* column is one more than the position it starts at
OnFirstLine(t) == t.at.file = 0 /\ t.at.line = 1

StartOf(t) == t.at.column - 1

\* the radix that the text at position i of s asks for, "" when no digit is there
RadixAt(s, i) ==
  IF matches(s, i, "0x") \/ matches(s, i, "0X") THEN "Hexadecimal"
  ELSE IF matches(s, i, "0b") \/ matches(s, i, "0B") THEN "Binary"
  ELSE IF matches(s, i, "0") THEN "Octal"
  ELSE IF ~is_eof(s, i) /\ CharAt(s, i) \in Digits THEN "Decimal"
  ELSE ""

\* C18: the radix of an integer literal is that of its prefix: 0x or 0X is
\* hexadecimal, 0b or 0B binary, a leading 0 without them octal, any other
\* digit decimal; text that does not start with a digit gives no Integer
\* token.  `121;` is the decimal literal 121, `ab1;` is an identifier.
C18_RadixByPrefix ==
  /\ \A k \in 1..Len(tokens) :
       (OnFirstLine(tokens[k]) /\ tokens[k].kind.tag = "Integer") =>
         tokens[k].kind.format = RadixAt(src, StartOf(tokens[k]))
  /\ (src = "121;\n" /\ Len(tokens) >= 1) =>
       tokens[1].kind = IntegerKind("121", "Decimal", "None")
  /\ (src = "ab1;\n" /\ Len(tokens) >= 1) => tokens[1].kind = IdentifierKind("ab1")

(***************************************************************************)
(* C19  identifiers                                                        *)
(***************************************************************************)
\* the characters of identifiers and keywords
WordChars == AsciiAlphanumeric \cup {"_"}

IdentifierExamples ==
  {[text |-> "integer \n", name |-> "integer"],
   [text |-> "_x \n", name |-> "_x"],
   [text |-> "xy \n", name |-> "xy"]}

\* C19: a maximal run of letters, digits and underscores that starts with
\* no digit and is no keyword is one Identifier token whose text is the
\* whole run: an Identifier token starts where a run starts and holds all of
\* it; `integer`, which begins like the keyword int, `_x` and `xy`, each
\* followed by a blank, are one identifier each.
C19_IdentifierRuns ==
  /\ \A k \in 1..Len(tokens) :
       (OnFirstLine(tokens[k]) /\ tokens[k].kind.tag = "Identifier") =>
         /\ StartOf(tokens[k]) = 0 \/ CharAt(src, StartOf(tokens[k]) - 1) \notin WordChars
         /\ tokens[k].kind.text =
              SubSeq(src, StartOf(tokens[k]) + 1, SkipWhile(src, StartOf(tokens[k]), WordChars))
  /\ \A e \in IdentifierExamples :
       src = e.text =>
         /\ Len(tokens) >= 1 => tokens[1].kind = IdentifierKind(e.name)
         /\ LexerDone =>
              /\ lexst = "done"
              /\ Kinds(tokens) = <<"Identifier", "Eof">>

(***************************************************************************)
(* C20  string literals                                                    *)
(***************************************************************************)
StringExamples ==
  {[text |-> "\"ab\";\n", string |-> "ab", encoding |-> "None"],
   [text |-> "\"a\\\"b\";\n", string |-> "a\\\"b", encoding |-> "None"],
   [text |-> "u8\"ab\";\n", string |-> "ab", encoding |-> "UTF8"],
   [text |-> "u\"ab\";\n", string |-> "ab", encoding |-> "UTF16"],
   [text |-> "U\"ab\";\n", string |-> "ab", encoding |-> "UTF32"],
   [text |-> "L\"ab\";\n", string |-> "ab", encoding |-> "Wide"]}

\* C20: a string literal, with or without one of the prefixes u8, u, U, L
\* before its opening quote, is one String token that holds the raw
\* characters between the opening quote and the first quote that is not
\* escaped, with the encoding of the prefix, and scanning goes on right
\* behind the closing quote: in each example the string is followed by a
\* Semicolon token and Eof.
C20_StringLiteral ==
  \A e \in StringExamples :
    src = e.text =>
      /\ Len(tokens) >= 1 => tokens[1].kind = StringKind(e.string, e.encoding)
      /\ Len(tokens) >= 2 => tokens[2].kind = Kind("Semicolon")
      /\ LexerDone =>
           /\ lexst = "done"
           /\ Kinds(tokens) = <<"String", "Semicolon", "Eof">>

(***************************************************************************)
(* C21  the binary-operator levels                                         *)
(***************************************************************************)
\* the block items of the body of the first function definition
BodyItems == Elements(Walk(root, <<2, 2, 5, 2, 2>>))

\* the expression of block item k, an expression statement
StatementExpression(k) == BodyItems[k][2][2][2]

\* the name n as a node of binary level k, 1 for multiplicative up to 10 for
\* logical or, and 0 for a cast expression
Operand(k, n) == Wrapped(SubSeq(ExpressionLevels, 14 - k, 15), NameNode(n))

\* a node of binary level k as an expression
AtLevel(k, node) == Wrapped(SubSeq(ExpressionLevels, 1, 13 - k), node)

\* `a op1 b op2 c` with both operators of level k, grouped to the left
GroupedLeft(k, op1, op2) ==
  AtLevel(k, <<op2, <<op1, Operand(k, "a"), Operand(k - 1, "b")>>, Operand(k - 1, "c")>>)

\* the statements of BinaryOperators, level by level
LevelExamples ==
  << <<"Multiply", "Divide">>, <<"Add", "Subtract">>, <<"Left", "Right">>,
     <<"Less", "GreaterEqual">>, <<"Equal", "NotEqual">>, <<"And", "And">>,
     <<"ExclusiveOr", "ExclusiveOr">>, <<"InclusiveOr", "InclusiveOr">>,
     <<"LogicalAnd", "LogicalAnd">>, <<"LogicalOr", "LogicalOr">> >>

\* C21: every binary level groups to the left and takes its operands from
\* the level below: `a op1 b op2 c` with two operators of level k is
\* op2(op1(a, b), c) for each of the ten levels, and `a + b * c` is
\* Add(a, Multiply(b, c)).
C21_LeftAssociative ==
  (src = BinaryOperators /\ ParserDone) =>
    /\ parsest = "ok"
    /\ Len(BodyItems) = 11
    /\ \A k \in 1..10 :
         StatementExpression(k) = GroupedLeft(k, LevelExamples[k][1], LevelExamples[k][2])
    /\ StatementExpression(11) =
         AtLevel(2, <<"Add", Operand(2, "a"),
                      <<"Multiply", Operand(1, "b"), Operand(0, "c")>>>>)

\* BinaryOperators has been parsed to its end, eleven statements
C21_Witness ==
  /\ src = BinaryOperators
  /\ parsest = "ok"
  /\ TagAt(pindex) = "Eof"
  /\ Len(BodyItems) = 11
  /\ StatementExpression(2)[1] = "Assign"

(***************************************************************************)
(* C22  the assignment operators                                           *)
(***************************************************************************)
\* the operators in the order of the statements of AssignmentOperators
OperatorExamples ==
  <<"Assign", "Multiply", "Divide", "Modulo", "Add", "Subtract", "ShiftLeft",
    "ShiftRight", "And", "Xor", "Or">>

\* `a OP b` as an assignment expression with operator op
AssignmentOf(op) ==
  <<"Assignment", <<"Postfix", NameNode("a")>>, op,
    Wrapped(SubSeq(ExpressionLevels, 2, 15), NameNode("b"))>>

\* C22: scanning and parsing `a OP b` gives, for each of the eleven
\* assignment operators, an Assignment node with left a, the operator of OP
\* and right b; a statement without assignment operator gives the
\* Conditional variant.
C22_AssignmentOperators ==
  (src = AssignmentOperators /\ ParserDone) =>
    /\ parsest = "ok"
    /\ Len(BodyItems) = 12
    /\ \A k \in 1..11 : StatementExpression(k) = <<"Assign", AssignmentOf(OperatorExamples[k])>>
    /\ StatementExpression(12) = NameExpression("a")

(***************************************************************************)
(* C23  struct and union specifiers                                        *)
(***************************************************************************)
\* the first type specifier of the first external declaration, a declaration
FirstTypeSpecifier == Walk(root, <<2, 2, 2, 2, 2, 2>>)

\* C23: `struct S` without a brace after it parses as the WithoutMembers
\* variant, `struct S { int a; }` as the WithMembers variant, and in both
\* cases the keyword is consumed, so that the declaration around the
\* specifier is parsed to its end.
C23_StructSpecifier ==
  (src \in {StructReference, StructDefinition} /\ ParserDone) =>
    /\ parsest = "ok"
    /\ TagAt(pindex) = "Eof"
    /\ FirstTypeSpecifier[1] = "StructOrUnion"
    /\ FirstTypeSpecifier[2][1] =
         (IF src = StructReference THEN "WithoutMembers" ELSE "WithMembers")
    /\ FirstTypeSpecifier[2][2] = <<"Struct">>

(***************************************************************************)
(* C24  the two shapes of the for statement                                *)
(***************************************************************************)
\* the iteration statement that is the first block item of the body
FirstIteration == BodyItems[1][2][3][2]

\* C24: a for statement whose initializer is a declaration parses as the
\* ForDeclaration variant, one whose initializer is an expression as the
\* For variant, each with the condition that stands before the last
\* semicolon and the counter that stands after it.
C24_ForShapes ==
  (src \in {ForWithDeclaration, ForWithExpressions} /\ ParserDone) =>
    /\ parsest = "ok"
    /\ FirstIteration[1] = (IF src = ForWithDeclaration THEN "ForDeclaration" ELSE "For")
    /\ FirstIteration[3] # None
    /\ FirstIteration[4] # None

(***************************************************************************)
(* C25  the scope of a for statement                                       *)
(***************************************************************************)
\* C25: the header of a for statement has a scope frame of its own, popped
\* when the statement ends: in ForTypedef, whose for statement stands in the
\* block of a function (two frames), T is registered in a third frame, and
\* the T after the statement is not taken for a typedef name.
C25_ForScope ==
  (src = ForTypedef /\ ParserDone) =>
    /\ \A r \in Events("typedef_registered") : log[r].name = "T" => log[r].depth = 3
    /\ \A k \in Events("typedef_name") : ~(log[k].name = "T" /\ log[k].index >= 15)

(***************************************************************************)
(* C26  the file table                                                     *)
(***************************************************************************)
\* the names that the calls before call k were made with
SeenBefore(k) == {log[j].name : j \in 1..(k - 1)}

\* C26: over every sequence of get_file_id calls, two calls return the same
\* id exactly when they were made with the same name; a name that was not
\* seen before gets the number of names seen before it as its id, so that
\* the ids are 0, 1, 2, ... in first-seen order; the table holds the names
\* seen and no other entry; and the entry of every id ever returned is,
\* after every later call, still the name the id was returned for.
C26_FileTable ==
  /\ \A j, k \in Events("get_file_id") : (log[j].name = log[k].name) <=> (log[j].id = log[k].id)
  /\ \A k \in Events("get_file_id") :
       log[k].name \notin SeenBefore(k) => log[k].id = Cardinality(SeenBefore(k))
  /\ Events("get_file_id") # {} => Len(files) = Cardinality(SeenBefore(Len(log) + 1))
  /\ \A k \in Events("get_file_id") :
       log[k].id < Len(files) /\ files[log[k].id + 1] = log[k].name

\* four calls, the third with the name of the first
C26_Witness ==
  /\ Len(log) = 4
  /\ <<log[1].ev, log[1].name, log[1].id>> = <<"get_file_id", "b.h", 0>>
  /\ <<log[2].name, log[2].id>> = <<"a.c", 1>>
  /\ <<log[3].name, log[3].id>> = <<"b.h", 0>>
  /\ <<log[4].name, log[4].id>> = <<"<EOF>", 2>>
  /\ files = <<"b.h", "a.c", "<EOF>">>

(***************************************************************************)
(* C27  the cursor and the end of the tokens                               *)
(***************************************************************************)
\* the index of the Eof token, the last of the tokens
EofIndex == Len(tokens) - 1

\* the cursor positions that event k of the log recorded
IndicesOf(k) ==
  CASE log[k].ev = "try_failed" ->
         {log[k].index_before, log[k].index_reached, log[k].index_after}
    [] log[k].ev \in {"cast_expression", "compound_statement"} ->
         {log[k].index_before, log[k].index_after}
    [] OTHER -> {log[k].index}

\* C27: on tokens that end with Eof the cursor of the parser never passes
\* the Eof token, in a speculative attempt or outside of one: no rule ends in
\* the abort of an index out of bounds, the cursor that parse is left with
\* and every cursor position on record, those that failed attempts reached
\* included, are at most the index of Eof, and every token that was stepped
\* over is not Eof.
C27_CursorInBounds ==
  /\ parsest # "panic"
  /\ parsest # "new" =>
       /\ tokens[Len(tokens)].kind = Kind("Eof")
       /\ pindex <= EofIndex
       /\ \A k \in 1..Len(log) : \A i \in IndicesOf(k) :
            /\ i <= EofIndex
            /\ \A j \in 0..(i - 1) : TagAt(j) # "Eof"

\* the text ended after a unary operator: the operand was looked for at Eof,
\* inside attempts that failed there, and parse has returned
C27_Witness ==
  /\ src = TruncatedUnary
  /\ ParserDone
  /\ TagAt(EofIndex - 1) = "Minus"
  /\ \E k \in Events("try_failed") :
       log[k].index_reached = EofIndex /\ log[k].index_after < EofIndex

(***************************************************************************)
(* C28  the depth of the scope stack                                       *)
(***************************************************************************)
\* the texts whose braces all belong to compound statements
BlocksOnly == Sources \ {EnumTrailingComma, StructDefinition}

\* the number of blocks that are open in front of token i
OpenBlocks(i) ==
  Cardinality({j \in 0..(i - 1) : TagAt(j) = "OpenBrace"})
    - Cardinality({j \in 0..(i - 1) : TagAt(j) = "CloseBrace"})

\* C28: between the push in parse_translation_unit and the return of parse
\* the scope stack is never empty; its depth is one plus the number of
\* compound statements whose block items are being parsed, wherever a
\* typedef name is registered or looked up and wherever a cast expression
\* or a compound statement begins or ends; and a compound statement, and
\* every attempt, returns with the depth it was entered with, whether it
\* succeeds or fails.
C28_ScopeDepth ==
  /\ parsest \in {"list", "err"} => Len(scopes) = 1
  /\ \A k \in Events("try_failed") :
       /\ Len(log[k].scopes_before) >= 1
       /\ Len(log[k].scopes_reached) = Len(log[k].scopes_before)
       /\ Len(log[k].scopes_after) = Len(log[k].scopes_before)
  /\ \A k \in Events("compound_statement") :
       /\ Len(log[k].scopes_before) >= 1
       /\ Len(log[k].scopes_after) = Len(log[k].scopes_before)
       /\ src \in BlocksOnly =>
            /\ Len(log[k].scopes_before) = 1 + OpenBlocks(log[k].index_before)
            /\ Len(log[k].scopes_after) = 1 + OpenBlocks(log[k].index_after)
  /\ \A k \in Events("cast_expression") :
       /\ Len(log[k].scopes) >= 1
       /\ src \in BlocksOnly => Len(log[k].scopes) = 1 + OpenBlocks(log[k].index_before)
  /\ \A k \in Events("typedef_registered") \cup Events("typedef_name") :
       /\ log[k].depth >= 1
       /\ src \in BlocksOnly => log[k].depth = 1 + OpenBlocks(log[k].index)

\* a block that was entered and left without its closing brace: the attempt
\* at a function definition failed right behind the open brace, one frame
\* deep, and a cast expression was parsed in the block, two frames deep
C28_Witness ==
  /\ src = TruncatedUnary
  /\ ParserDone
  /\ \E k \in Events("try_failed") :
       /\ log[k].index_before = 0
       /\ log[k].index_reached >= 1
       /\ TagAt(log[k].index_reached - 1) = "OpenBrace"
       /\ Len(log[k].scopes_reached) = 1
  /\ \E k \in Events("cast_expression") : Len(log[k].scopes) = 2

(***************************************************************************)
(* C30  static assertions                                                  *)
(***************************************************************************)
\* the first external declaration, a declaration
FirstDeclaration == Walk(root, <<2, 2>>)

\* C30: `static_assert(a, "m");` parses to a StaticAssertDeclaration whose
\* message is the string literal "m", the string being consumed before the
\* closing parenthesis is taken, and `static_assert(a);` to one without a
\* message; both are parsed to the end of the text.
C30_StaticAssert ==
  (src \in {StaticAssertMessage, StaticAssertPlain} /\ ParserDone) =>
    /\ parsest = "ok"
    /\ TagAt(pindex) = "Eof"
    /\ FirstDeclaration[1] = "Assert"
    /\ FirstDeclaration[2][1] = "StaticAssertDeclaration"
    /\ src = StaticAssertMessage => FirstDeclaration[2][3][1] = "StringLiteral"
    /\ src = StaticAssertPlain => FirstDeclaration[2][3] = None

(***************************************************************************)
(* C29  termination                                                        *)
(***************************************************************************)
\* what is on record of the rules that succeeded: a cast expression and a
\* compound statement end behind the token they began at, and the list of
\* external declarations has no more elements than tokens were consumed
RulesMoveCursor ==
  /\ \A k \in Events("cast_expression") \cup Events("compound_statement") :
       log[k].index_after > log[k].index_before
  /\ parsest \in {"list", "ok"} => Len(Elements(root)) <= pindex

\* a step that adds an element to the list of external declarations moves
\* the cursor forward
ListMovesCursor ==
  /\ (parsest = "new" /\ parsest' = "list") => pindex' > 0
  /\ (parsest = "list" /\ parsest' = "list") => pindex' > pindex

\* C29: on tokens that end with Eof and hold no `[[`, Parser::parse
\* terminates: every rule of the model is computed to its end, every
\* iteration of the loop of parse_list consumes at least one token, no rule
\* on record succeeds without moving the cursor, and once the scanner is
\* done the parser comes to its end, with a tree, an error or an abort.
C29_Terminates ==
  /\ []RulesMoveCursor
  /\ [][ListMovesCursor]_vars
  /\ (lexst = "done") ~> ParserDone

\* two external declarations were parsed one after the other, up to Eof,
\* and the third iteration of the loop ended it
C29_Witness ==
  /\ src = TypedefTwoNames
  /\ parsest = "ok"
  /\ Len(Elements(root)) = 2
  /\ TagAt(pindex) = "Eof"
====
